---- MODULE Spec2Model ----
(***************************************************************************)
(* Ingestion / de-duplication / enrichment pipeline of the news aggregator *)
(* (src/lib/news-api.ts, the revisions of src/lib/blob-storage.ts, and the  *)
(* list endpoint src/app/api/articles/route.ts).                           *)
(*                                                                         *)
(* The repository holds three revisions of the storage access layer:       *)
(*   "lib"     src/lib/blob-storage.ts                                     *)
(*   "tracker" src/unnamed/part_007 lines 1-496 (in-memory dedup tracker)  *)
(*   "paged"   src/unnamed/part_007 lines 498-932 (paginated scan)         *)
(* All three export the storeArticle/getArticleFromBlob that news-api.ts   *)
(* imports; the variable rev fixes which one a behaviour is linked with.   *)
(*                                                                         *)
(* Spec is the pipeline under concurrent calls of fetchTopHeadlines;       *)
(* SpecRoute is the list endpoint, which calls it.  SpecBatch is one call  *)
(* on a batch of two items, SpecById the add and the by-id endpoint,       *)
(* SpecCleanup the cleanup job while time passes, SpecPage the cut of a    *)
(* list into pages, SpecAnalyze the validation of an enrichment response,  *)
(* SpecCategories one call with every category answer of the enrichment,   *)
(* SpecScan one call against a store that already holds two records,       *)
(* SpecValidate the validation of the categorical fields, SpecDeleteAll    *)
(* the delete-all endpoint beside one call, SpecReingest repeated calls on *)
(* one item while the cleanup job runs, SpecSearch searchArticles, and     *)
(* SpecManual the add endpoint followed by the list endpoint.              *)
(*                                                                         *)
(* JavaScript runs one continuation at a time, so every action below is    *)
(* the code between two awaits of one request or background task.          *)
(***************************************************************************)
EXTENDS Integers, Sequences, FiniteSets, TLC

\* ------------------------------------------------------------------ bounds
\* number of fetchTopHeadlines calls (list-endpoint requests) a behaviour starts
MaxFetches == 2

\* --------------------------------------------------------- program constants
\* blob-storage.ts:91  blobs.slice(0, 10)
ContentCheckCap == 10
\* blob-storage.ts:60  list({ prefix, limit: 50 })
ListLimitLib == 50
\* part_007:137  list({ prefix, limit: 100 })
ListLimitTracker == 100
\* blob-storage.ts:278  blobs.slice(0, 50)
ListReadCap == 50

Revs == {"lib", "tracker", "paged"}

\* ---------------------------------------------------------------- URLs
\* A URL is kept by its parts so that the normalisers can be computed.
\* raw is the literal string (used where the code uses the string as a key).
Url(raw, proto, www, host, path, query, slash) ==
  [raw |-> raw, empty |-> FALSE, proto |-> proto, www |-> www, host |-> host,
   path |-> path, query |-> query, slash |-> slash]

NoUrl ==
  [raw |-> "", empty |-> TRUE, proto |-> "", www |-> FALSE, host |-> "",
   path |-> <<>>, query |-> "", slash |-> FALSE]

UrlA1 == Url("https://ex.com/a?utm_source=x", "https", FALSE, "ex.com", <<"a">>, "utm_source=x", FALSE)
UrlA2 == Url("http://www.ex.com/a/", "http", TRUE, "ex.com", <<"a">>, "", TRUE)
UrlB == Url("https://ex.com/b", "https", FALSE, "ex.com", <<"b">>, "", FALSE)

\* path segments that the tracking-parameter regex of part_007:25 matches
TrackingSeg(s) == s \in {"utm_x", "ref=x", "source=x"}

RECURSIVE BeforeTracking(_)
BeforeTracking(path) ==
  IF path = <<>> THEN <<>>
  ELSE IF TrackingSeg(Head(path)) THEN <<>>
  ELSE <<Head(path)>> \o BeforeTracking(Tail(path))

\* blob-storage.ts:130-140, the normalizeUrl local to checkDuplicateArticle:
\* protocol//hostname+pathname, one trailing slash removed, lower-cased;
\* the query is dropped, the www. prefix is kept.  new URL("") throws and
\* the catch returns the lower-cased input.
normalizeUrlLib(u) ==
  IF u.empty
  THEN [empty |-> TRUE, proto |-> "", www |-> FALSE, host |-> "", path |-> <<>>]
  ELSE [empty |-> FALSE, proto |-> u.proto, www |-> u.www, host |-> u.host,
        path |-> u.path]

\* blob-storage.ts:151  .replace(/^https?:/, '')
stripProtocol(n) == [n EXCEPT !.proto = ""]

\* part_007:13-32 (and 506-525): hostname without "www." + pathname,
\* trailing slashes removed, lower-cased, then everything from a tracking
\* token on is deleted (the slash before the token stays).
normalizeUrl(u) ==
  IF u.empty THEN [empty |-> TRUE, host |-> "", path |-> <<>>, dangling |-> FALSE]
  ELSE [empty |-> FALSE, host |-> u.host, path |-> BeforeTracking(u.path),
        dangling |-> BeforeTracking(u.path) # u.path]

\* part_007:17 / 510: a string that does not start with "http" is read as a
\* path below https://example.com; this is what the path check of
\* part_007:629-630 does with the id it cuts out of a blob pathname.
normalizeUrlOfId(id) ==
  [empty |-> FALSE, host |-> "example.com", path |-> <<id>>, dangling |-> FALSE]

\* ---------------------------------------------------------------- titles
\* A title is a sequence of characters over a small alphabet.
Lower(c) == CASE c = "X" -> "x" [] c = "Y" -> "y" [] c = "Z" -> "z" [] OTHER -> c
IsWordOrSpace(c) == c \in {"x", "y", "z", "X", "Y", "Z", " "}

RECURSIVE MapLower(_)
MapLower(s) == IF s = <<>> THEN <<>> ELSE <<Lower(Head(s))>> \o MapLower(Tail(s))

RECURSIVE TrimLeft(_)
TrimLeft(s) == IF s # <<>> /\ Head(s) = " " THEN TrimLeft(Tail(s)) ELSE s

RECURSIVE TrimRight(_)
TrimRight(s) ==
  IF s # <<>> /\ s[Len(s)] = " " THEN TrimRight(SubSeq(s, 1, Len(s) - 1)) ELSE s

\* blob-storage.ts:183-187  toLowerCase().replace(/[^\w\s]/g, "").trim()
normalizeTitle(t) == TrimRight(TrimLeft(SelectSeq(MapLower(t), IsWordOrSpace)))

\* String.prototype.includes
Includes(s, sub) ==
  \E i \in 1..(Len(s) - Len(sub) + 1) : SubSeq(s, i, i + Len(sub) - 1) = sub

\* blob-storage.ts:181-201, part_007:183-200, part_007:694-714
similarTitles(title1, title2) ==
  LET n1 == normalizeTitle(title1)
      n2 == normalizeTitle(title2)
  IN  n1 = n2 \/ Includes(n1, n2) \/ Includes(n2, n1)

\* ------------------------------------------------------------ sequences
Take(s, n) == SubSeq(s, 1, IF Len(s) < n THEN Len(s) ELSE n)

RECURSIVE Uniq(_)
\* order-preserving removal of repeated elements ([...new Set(xs)])
Uniq(s) ==
  IF s = <<>> THEN <<>>
  ELSE LET r == Uniq(SubSeq(s, 1, Len(s) - 1))
           x == s[Len(s)]
       IN  IF \E i \in 1..Len(r) : r[i] = x THEN r ELSE Append(r, x)

\* --------------------------------------------------------------- articles
\* types/article.ts:15
ArticleCategory ==
  {"sport", "economy", "politics", "war", "technology", "religion", "work",
   "travel", "health", "entertainment", "science", "education", "environment",
   "fashion", "food", "lifestyle", "other"}

\* news-api.ts:227-246
mapCategory(cat) ==
  CASE cat \in {"sports", "sport"} -> "sport"
    [] cat \in {"business", "economics", "economy"} -> "economy"
    [] cat \in {"politics"} -> "politics"
    [] cat \in {"war", "conflict"} -> "war"
    [] cat \in {"technology", "tech"} -> "technology"
    [] cat \in {"science"} -> "science"
    [] cat \in {"religion", "faith"} -> "religion"
    [] cat \in {"work", "jobs", "career"} -> "work"
    [] cat \in {"travel", "tourism"} -> "travel"
    [] cat \in {"health", "medicine", "healthcare"} -> "health"
    [] cat \in {"entertainment", "celebrities", "movies", "music"} -> "entertainment"
    [] cat \in {"education"} -> "education"
    [] cat \in {"environment", "climate"} -> "environment"
    [] cat \in {"fashion", "style"} -> "fashion"
    [] cat \in {"food", "cooking", "restaurants"} -> "food"
    [] cat \in {"lifestyle"} -> "lifestyle"
    [] OTHER -> "other"

IsArticleCategory(c) == c \in ArticleCategory

\* news-api.ts:250  article.category.map(mapCategory)
RECURSIVE mapCategories(_)
mapCategories(cats) ==
  IF cats = <<>> THEN <<>> ELSE <<mapCategory(Head(cats))>> \o mapCategories(Tail(cats))

\* news-api.ts:249-257
placeholderCategories(rawCategory) ==
  IF Len(rawCategory) > 0
  THEN Take(SelectSeq(Uniq(mapCategories(rawCategory)), IsArticleCategory), 3)
  ELSE <<"other">>

\* news-api.ts:269-281: the zeroed metrics of a placeholder.  scores stands
\* for the nine fields the enrichment service returns, engagementScore for
\* the fields it never returns (engagementScore, bias).
ZeroMetrics == [scores |-> "zero", engagementScore |-> 0]

\* results of a successful analyzeArticle call (ai.ts:145-150)
Analyses ==
  { [ok |-> TRUE, metrics |-> [scores |-> "m1"], categories |-> <<"politics">>,
     aiSummary |-> "sum"] }

\* analyzeArticle throwing (ai.ts:151-162)
AnalysisFailure ==
  [ok |-> FALSE, metrics |-> [scores |-> "none"], categories |-> <<>>, aiSummary |-> ""]

AnalysisOutcomes == Analyses \cup {AnalysisFailure}

\* upstream items (NewsDataArticle, news-api.ts:11-25)
TitleX == <<"X", "!">>
TitleY == <<"y">>
TitleZ == <<"z", "z">>

RawA == [article_id |-> "a", link |-> UrlA1, title |-> TitleX, source_id |-> "s1",
         content |-> "txt", description |-> "", category |-> <<"sports", "sport", "top">>]
RawB == [article_id |-> "b", link |-> UrlA2, title |-> TitleY, source_id |-> "s1",
         content |-> "", description |-> "dsc", category |-> <<>>]
RawC == [article_id |-> "c", link |-> UrlB, title |-> TitleZ, source_id |-> "s2",
         content |-> "", description |-> "", category |-> <<"politics">>]

RawItems == {RawA, RawB, RawC}

\* ids in the order the blob store lists their pathnames
IdOrder == <<"a", "b", "c">>
Ids == {IdOrder[i] : i \in 1..Len(IdOrder)}

\* upstream result lists a request can receive
Batches == {<<RawA>>, <<RawB>>, <<RawC>>}

\* a || b on strings
OrElse(a, b) == IF a # "" THEN a ELSE b

\* news-api.ts:223-224, 260-284: the unanalyzed article built from a raw item
newArticle(raw) ==
  [id |-> raw.article_id,
   title |-> raw.title,
   content |-> OrElse(raw.content, OrElse(raw.description, "")),
   url |-> raw.link,
   source |-> OrElse(raw.source_id, "Unknown"),
   metrics |-> ZeroMetrics,
   analyzed |-> FALSE,
   aiSummary |-> "",
   categories |-> placeholderCategories(raw.category)]

\* news-api.ts:360-373: the article as updated from a successful analysis
updatedArticle(article, an) ==
  [article EXCEPT
     !.metrics = [scores |-> an.metrics.scores,
                  engagementScore |-> article.metrics.engagementScore],
     !.aiSummary = OrElse(an.aiSummary, ""),
     !.analyzed = TRUE,
     !.categories = IF Len(an.categories) > 0 THEN an.categories
                    ELSE article.categories]

\* news-api.ts:383-387: the article as written when the analysis threw
failedArticle(article) ==
  [article EXCEPT
     !.analyzed = TRUE,
     !.categories = IF Len(article.categories) > 0 THEN article.categories
                    ELSE <<"other">>]

\* ------------------------------------------------------------ blob store
\* The durable store is a function from the ids that have a blob
\* "articles/<id>.json" to the article serialised in it.
\*
\* Outcome of fetching one blob's content: "ok", "err" (non-OK status other
\* than 429, timeout, malformed JSON) or "r429" (rate limit).
FetchOutcomes == {"ok", "err", "r429"}

\* an optional value: <<>> is null, <<v>> is v
Null == <<>>
Some(v) == <<v>>

\* what storeArticle returns
\* (dup tells a locator returned for an existing record from the locator of
\* a record just written; the caller sees the same string kind for both)
BlobUrl(id) == [kind |-> "url", id |-> id, dup |-> FALSE]
ProcessingMarker(id) == [kind |-> "processing", id |-> id, dup |-> TRUE]
DuplicateMarker(id) == [kind |-> "duplicate", id |-> id, dup |-> TRUE]
IdMarker(id) == [kind |-> "id", id |-> id, dup |-> TRUE]
ErrorMarker(id) == [kind |-> "error", id |-> id, dup |-> FALSE]

\* list({ prefix: ARTICLES_PREFIX }): the ids of the stored blobs, in
\* pathname order
BlobList(st) == SelectSeq(IdOrder, LAMBDA i : i \in DOMAIN st)

\* A lookup key is the string handed to getArticleFromBlob, kept as the name
\* and the number of ".json" suffixes it already carries: the lookup lists
\* the prefix "articles/<key>.json", which a pathname "articles/<id>.json"
\* matches only when the key is the bare id.
IdKey(id) == [name |-> id, ext |-> 0]
FileNameKey(id) == [name |-> id, ext |-> 1]
PrefixMatches(key, id) == key.name = id /\ key.ext + 1 <= 1
HasBlob(st, key) == \E i \in DOMAIN st : PrefixMatches(key, i)

\* blob-storage.ts:252-255 (part_007:268-270, 766-768): the read-time
\* coercion.  article.metrics is truthy whenever the record has a metrics
\* object, zeroed or not.
HasMetrics(article) == article.metrics.scores # "none"
\* a read that returns the record as stored
readCoerceOff(article) == article
readCoerce(article) ==
  IF HasMetrics(article) /\ ~article.analyzed
  THEN [article EXCEPT !.analyzed = TRUE]
  ELSE article

\* blob-storage.ts:214-266, part_007:223-290, part_007:727-779:
\* never throws; anything but a successful fetch and parse gives null.
getArticleFromBlob(st, key, outcome) ==
  IF ~HasBlob(st, key) THEN Null
  ELSE IF outcome # "ok" THEN Null
  ELSE Some(readCoerce(st[key.name]))

\* blob-storage.ts:269-334 (part_007:293-368, 782-847): entries that fail
\* to fetch or parse are skipped
RECURSIVE readBlobs(_, _, _)
readBlobs(st, blobs, out) ==
  IF blobs = <<>> THEN <<>>
  ELSE IF out[Head(blobs)] # "ok" THEN readBlobs(st, Tail(blobs), out)
  ELSE <<readCoerce(st[Head(blobs)])>> \o readBlobs(st, Tail(blobs), out)

listArticlesFromBlob(st, out, listOk) ==
  IF ~listOk THEN <<>>
  ELSE readBlobs(st, Take(BlobList(st), ListReadCap), out)

\* ------------------------------------------------ duplicate detection: lib
\* blob-storage.ts:81: blob.pathname.includes(encodeURIComponent(article.url)).
\* The encoding of a non-empty URL contains "%3A%2F%2F", which no pathname
\* "articles/<id>.json" contains; the encoding of "" is "", which every
\* string includes.
pathnameIncludesUrl(id, url) == url.empty

\* blob-storage.ts:68-88
RECURSIVE pathCheckLib(_, _)
pathCheckLib(blobs, article) ==
  IF blobs = <<>> THEN Null
  ELSE IF Head(blobs) = article.id THEN pathCheckLib(Tail(blobs), article)
  ELSE IF pathnameIncludesUrl(Head(blobs), article.url) THEN Some(BlobUrl(Head(blobs)))
  ELSE pathCheckLib(Tail(blobs), article)

\* blob-storage.ts:142-154
sameUrlLib(newUrl, existingUrl) ==
  \/ normalizeUrlLib(newUrl) = normalizeUrlLib(existingUrl)
  \/ stripProtocol(normalizeUrlLib(newUrl)) = stripProtocol(normalizeUrlLib(existingUrl))

\* a content check that gives up at the first entry it cannot read
RECURSIVE contentCheckLibAbortOnError(_, _, _, _)
contentCheckLibAbortOnError(st, blobs, article, out) ==
  IF blobs = <<>> THEN Null
  ELSE LET id == Head(blobs)
           existingArticle == st[id]
       IN  IF out[id] # "ok" THEN Null
           ELSE IF sameUrlLib(article.url, existingArticle.url)
                THEN Some(BlobUrl(id))
           ELSE IF /\ existingArticle.title # <<>>
                   /\ article.title # <<>>
                   /\ similarTitles(existingArticle.title, article.title)
                THEN Some(BlobUrl(id))
           ELSE contentCheckLibAbortOnError(st, Tail(blobs), article, out)

\* blob-storage.ts:93-170
RECURSIVE contentCheckLib(_, _, _, _)
contentCheckLib(st, blobs, article, out) ==
  IF blobs = <<>> THEN Null
  ELSE LET id == Head(blobs)
           existingArticle == st[id]
       IN  IF out[id] = "r429" THEN Null
           ELSE IF out[id] = "err" THEN contentCheckLib(st, Tail(blobs), article, out)
           ELSE IF sameUrlLib(article.url, existingArticle.url)
                THEN Some(BlobUrl(id))
           ELSE IF /\ existingArticle.title # <<>>
                   /\ article.title # <<>>
                   /\ similarTitles(existingArticle.title, article.title)
                THEN Some(BlobUrl(id))
           ELSE contentCheckLib(st, Tail(blobs), article, out)

\* blob-storage.ts:57-178.  A failing list() is rethrown and storeArticle
\* (blob-storage.ts:23-27) goes on to store, as after "no duplicate".
checkDuplicateArticleLib(st, article, out, listOk) ==
  IF ~listOk THEN Null
  ELSE LET blobs == Take(BlobList(st), ListLimitLib)
           byPath == pathCheckLib(blobs, article)
       IN  IF blobs = <<>> THEN Null
           ELSE IF byPath # Null THEN byPath
           ELSE contentCheckLib(st, Take(blobs, ContentCheckCap), article, out)

\* -------------------------------------------- duplicate detection: tracker
\* a scan that answers with the locator of the candidate
RECURSIVE scanTrackerOwnLocator(_, _, _, _)
scanTrackerOwnLocator(st, blobs, article, out) ==
  IF blobs = <<>> THEN Null
  ELSE LET id == Head(blobs)
           existing == getArticleFromBlob(st, IdKey(id), out[id])
       IN  IF id = article.id THEN scanTrackerOwnLocator(st, Tail(blobs), article, out)
           ELSE IF existing = Null
                THEN scanTrackerOwnLocator(st, Tail(blobs), article, out)
           ELSE IF /\ ~existing[1].url.empty
                   /\ normalizeUrl(existing[1].url) = normalizeUrl(article.url)
                THEN Some(BlobUrl(article.id))
           ELSE IF /\ existing[1].source = article.source
                   /\ similarTitles(existing[1].title, article.title)
                THEN Some(BlobUrl(article.id))
           ELSE scanTrackerOwnLocator(st, Tail(blobs), article, out)

\* part_007:141-173
RECURSIVE scanTracker(_, _, _, _)
scanTracker(st, blobs, article, out) ==
  IF blobs = <<>> THEN Null
  ELSE LET id == Head(blobs)
           existing == getArticleFromBlob(st, IdKey(id), out[id])
       IN  IF id = article.id THEN scanTracker(st, Tail(blobs), article, out)
           ELSE IF existing = Null THEN scanTracker(st, Tail(blobs), article, out)
           ELSE IF /\ ~existing[1].url.empty
                   /\ normalizeUrl(existing[1].url) = normalizeUrl(article.url)
                THEN Some(BlobUrl(id))
           ELSE IF /\ existing[1].source = article.source
                   /\ similarTitles(existing[1].title, article.title)
                THEN Some(BlobUrl(id))
           ELSE scanTracker(st, Tail(blobs), article, out)

\* part_007:124-180
checkDuplicateArticleTracker(st, article, out, listOk) ==
  IF article.url.empty THEN Null
  ELSE IF ~listOk THEN Null
  ELSE scanTracker(st, Take(BlobList(st), ListLimitTracker), article, out)

\* ---------------------------------------------- duplicate detection: paged
\* part_007:604  for (let i = 0; i < 5; i++)
MaxPages == 5
\* part_007:607  limit: 100
PageLimit == 100

\* part_007:615-639
RECURSIVE pathCheckPaged(_, _)
pathCheckPaged(blobs, article) ==
  IF blobs = <<>> THEN Null
  ELSE IF Head(blobs) = article.id THEN pathCheckPaged(Tail(blobs), article)
  ELSE IF normalizeUrlOfId(Head(blobs)) = normalizeUrl(article.url)
       THEN Some(BlobUrl(Head(blobs)))
  ELSE pathCheckPaged(Tail(blobs), article)

\* part_007:645-674: the lookup is made with the file name "<id>.json"
RECURSIVE contentCheckPaged(_, _, _, _)
contentCheckPaged(st, blobs, article, out) ==
  IF blobs = <<>> THEN Null
  ELSE LET id == Head(blobs)
           existing == getArticleFromBlob(st, FileNameKey(id), out[id])
       IN  IF existing = Null THEN contentCheckPaged(st, Tail(blobs), article, out)
           ELSE IF /\ ~existing[1].url.empty
                   /\ normalizeUrl(existing[1].url) = normalizeUrl(article.url)
                THEN Some(BlobUrl(id))
           ELSE IF /\ existing[1].title # <<>>
                   /\ article.title # <<>>
                   /\ similarTitles(existing[1].title, article.title)
                THEN Some(BlobUrl(id))
           ELSE contentCheckPaged(st, Tail(blobs), article, out)

\* part_007:604-684: page after page, path check then content check
RECURSIVE scanPages(_, _, _, _, _)
scanPages(st, rest, article, out, page) ==
  IF page > MaxPages \/ rest = <<>> THEN Null
  ELSE LET blobs == Take(rest, PageLimit)
           byPath == pathCheckPaged(blobs, article)
           byContent == contentCheckPaged(st, blobs, article, out)
       IN  IF byPath # Null THEN byPath
           ELSE IF byContent # Null THEN byContent
           ELSE scanPages(st, SubSeq(rest, Len(blobs) + 1, Len(rest)), article, out, page + 1)

\* part_007:575-691
checkDuplicateArticlePaged(st, article, out, listOk) ==
  IF article.url.empty THEN Null
  ELSE IF article.id # "" /\ getArticleFromBlob(st, IdKey(article.id), out[article.id]) # Null
       THEN Some(IdMarker(article.id))
  ELSE IF ~listOk THEN Null
  ELSE scanPages(st, BlobList(st), article, out, 1)

\* ------------------------------------------------------------------ state
VARIABLES
  rev,                    \* revision of the storage access layer linked in
  store,                  \* the blob store: id -> stored article
  articlesInProgress,     \* news-api.ts:43
  articlesBeingProcessed, \* part_007:9
  processedArticleUrls,   \* part_007:10
  req,                    \* the running fetchTopHeadlines calls
  tasks,                  \* the running analyzeArticleInBackground calls
  nFetches,               \* fetchTopHeadlines calls started so far
  enrichCalls,            \* per article id, the analyzeArticle calls made
  seenAnalyzed,           \* ids that a read made at some earlier moment
                          \* returned with analyzed = true
  ev,                     \* what the last step did: a call that completed
                          \* in it, with what it returned
  now,                    \* the clock, in milliseconds (new Date())
  cleanup                 \* the running cleanupOldArticles call

vars == <<rev, store, articlesInProgress, articlesBeingProcessed,
          processedArticleUrls, req, tasks, nFetches, enrichCalls,
          seenAnalyzed, ev, now, cleanup>>

\* the slots of concurrently running requests; a request takes the first
\* free slot
Procs == {"p1", "p2"}
SlotBefore(q, p) == q = "p1" /\ p = "p2"
Pages == {1, 2}
PageSizes == {1, 2}
OutcomeMaps == [Ids -> FetchOutcomes]

\* what the last step did is kept in ev: "stored" when a storeArticle call
\* of fetchTopHeadlines returned (result is what it returned, spawned
\* whether analyzeArticleInBackground was then called, replaced the record
\* its write replaced), "taskEnd" when an analyzeArticleInBackground call
\* ended, "returned" and "response" when fetchTopHeadlines and the list
\* endpoint answered.
\*
\* a call of fetchTopHeadlines: pc is where it stands; viaRoute tells a call
\* made by the list endpoint, whose query parameters are refresh and
\* pageSize (page is first used when the answer is cut, and is drawn
\* there); twin and clean record, for the storeArticle call in progress,
\* whether a record with the same logical URL was stored when it was
\* called and whether every store request it made has succeeded; batch is
\* the items the feed returned and failed the ids whose storeArticle call
\* ended in a failed put
IdleReq ==
  [pc |-> "idle", viaRoute |-> FALSE, refresh |-> FALSE, pageSize |-> 2,
   existing |-> <<>>, queue |-> <<>>, results |-> <<>>, errors |-> <<>>,
   twin |-> FALSE, clean |-> TRUE, batch |-> <<>>, failed |-> {}]

Event(type, id, info) == [type |-> type, id |-> id, info |-> info]
NoInfo == [none |-> TRUE]
NoEvent == Event("none", "", NoInfo)

\* two URLs that differ at most by protocol, www. prefix, query string and
\* trailing slash
SameLogicalUrl(u, v) ==
  /\ ~u.empty /\ ~v.empty
  /\ u.host = v.host /\ u.path = v.path

\* no cleanupOldArticles call is running.  Of a running call, started is
\* its `now`, blobs the listed blobs still to visit, read the record
\* fetched for the blob whose delete is under way, and log what the call did
\* with each blob visited.
IdleCleanup == [pc |-> "idle", started |-> 0, blobs |-> <<>>, deletedCount |-> 0,
                read |-> Null, log |-> {}]

Init ==
  /\ rev \in Revs
  /\ store = <<>>
  /\ articlesInProgress = {}
  /\ articlesBeingProcessed = {}
  /\ processedArticleUrls = {}
  /\ req = [p \in Procs |-> IdleReq]
  /\ tasks = {}
  /\ nFetches = 0
  /\ enrichCalls = [i \in Ids |-> 0]
  /\ seenAnalyzed = {}
  /\ ev = NoEvent
  /\ now = 0
  /\ cleanup = IdleCleanup

\* the ids that getArticleFromBlob (blob-storage.ts:214-266), its fetch
\* succeeding, returns with analyzed = true
readsAnalyzed(st) ==
  {i \in DOMAIN st : getArticleFromBlob(st, IdKey(i), "ok")[1].analyzed}

\* blob-storage.ts:31-34 (part_007:94-97, 550-553): the record written is
\* the article with the time of the write
withStoredAt(article, t) ==
  [f \in DOMAIN article \cup {"storedAt"} |->
     IF f = "storedAt" THEN t ELSE article[f]]

\* put(`articles/${id}.json`, json, { allowOverwrite: true })
Put(st, article) ==
  [i \in DOMAIN st \cup {article.id} |-> IF i = article.id THEN article ELSE st[i]]

\* ------------------------------------------------------- the list endpoint
\* route.ts:53-63: the keys of the refresh merge and of the final
\* de-duplication are the whole URL string and "title-source", lower-cased
urlKey(article) ==
  [empty |-> article.url.empty, proto |-> article.url.proto, www |-> article.url.www,
   host |-> article.url.host, path |-> article.url.path,
   query |-> article.url.query, slash |-> article.url.slash]
titleSourceKey(article) == <<MapLower(article.title), article.source>>

\* a merge that puts the new articles behind the existing ones
mergeArticlesAppended(refresh, existing, fetched) ==
  IF refresh /\ Len(existing) > 0
  THEN LET existingUrls == {urlKey(existing[i]) : i \in 1..Len(existing)}
           existingTitles == {titleSourceKey(existing[i]) : i \in 1..Len(existing)}
           isNew(a) == urlKey(a) \notin existingUrls /\ titleSourceKey(a) \notin existingTitles
       IN  existing \o SelectSeq(fetched, isNew)
  ELSE fetched

\* route.ts:51-72
mergeArticles(refresh, existing, fetched) ==
  IF refresh /\ Len(existing) > 0
  THEN LET existingUrls == {urlKey(existing[i]) : i \in 1..Len(existing)}
           existingTitles == {titleSourceKey(existing[i]) : i \in 1..Len(existing)}
           isNew(a) == urlKey(a) \notin existingUrls /\ titleSourceKey(a) \notin existingTitles
       IN  SelectSeq(fetched, isNew) \o existing
  ELSE fetched

\* route.ts:81-95
RECURSIVE uniqueArticles(_)
uniqueArticles(articles) ==
  IF articles = <<>> THEN <<>>
  ELSE LET r == uniqueArticles(SubSeq(articles, 1, Len(articles) - 1))
           a == articles[Len(articles)]
       IN  IF /\ \A i \in 1..Len(r) : urlKey(r[i]) # urlKey(a)
              /\ \A i \in 1..Len(r) : titleSourceKey(r[i]) # titleSourceKey(a)
           THEN Append(r, a)
           ELSE r

\* a cut that starts one page too far
respondFromNextPage(articles, errors, page, pageSize) ==
  LET unique == uniqueArticles(articles)
      startIndex == page * pageSize
      last == IF startIndex + pageSize < Len(unique) THEN startIndex + pageSize
              ELSE Len(unique)
  IN  [articles |-> SubSeq(unique, startIndex + 1, last),
       errors |-> errors,
       totalArticles |-> Len(unique),
       hasMore |-> startIndex + pageSize < Len(unique)]

\* route.ts:97-106
respond(articles, errors, page, pageSize) ==
  LET unique == uniqueArticles(articles)
      startIndex == (page - 1) * pageSize
      last == IF startIndex + pageSize < Len(unique) THEN startIndex + pageSize
              ELSE Len(unique)
  IN  [articles |-> SubSeq(unique, startIndex + 1, last),
       errors |-> errors,
       totalArticles |-> Len(unique),
       hasMore |-> startIndex + pageSize < Len(unique)]

\* route.ts:6-47: list the store, keep the analyzed articles, and either
\* answer from them or go on to fetchTopHeadlines
GetList(p, refresh, page, pageSize, out, listOk) ==
  /\ req[p].pc = "idle"
  /\ nFetches < MaxFetches
  /\ \A i \in Ids \ DOMAIN store : out[i] = "ok"
  /\ LET storedArticles == listArticlesFromBlob(store, out, listOk)
         analyzedStoredArticles == SelectSeq(storedArticles, LAMBDA a : a.analyzed = TRUE)
         shouldFetchNew == refresh \/ Len(analyzedStoredArticles) = 0
     IN  /\ nFetches' = nFetches + 1
         /\ IF shouldFetchNew
            THEN /\ req' = [req EXCEPT ![p] =
                      [IdleReq EXCEPT !.pc = "upstream",
                                      !.viaRoute = TRUE,
                                      !.refresh = refresh, !.pageSize = pageSize,
                                      !.existing = analyzedStoredArticles]]
                 /\ ev' = NoEvent
            ELSE /\ ev' = Event("response", "",
                                [path |-> "default",
                                 body |-> respond(analyzedStoredArticles, <<>>, page, pageSize)])
                 /\ UNCHANGED req
  /\ UNCHANGED <<rev, now, cleanup, store, articlesInProgress, articlesBeingProcessed,
                 processedArticleUrls, tasks, enrichCalls, seenAnalyzed>>

\* route.ts:49-106 after fetchTopHeadlines has returned
routeAnswer(r, articles, errors, page) ==
  Event("response", "",
        [path |-> IF r.refresh /\ Len(r.existing) > 0 THEN "refresh" ELSE "empty",
         body |-> respond(mergeArticles(r.refresh, r.existing, articles), errors,
                          page, r.pageSize)])

\* the entries of the errors list: news-api.ts:336 for a failed request to
\* the feed, news-api.ts:319 for an item whose storage step threw
FetchError == [kind |-> "fetch", id |-> ""]
StoreError(id) == [kind |-> "store", id |-> id]

\* what a call of fetchTopHeadlines hands back, to the list endpoint or to
\* another caller (news-api.ts:331, 334-337)
fetchAnswer(r, articles, errors, page) ==
  IF r.viaRoute THEN routeAnswer(r, articles, errors, page)
  ELSE Event("returned", "", [articles |-> articles, errors |-> errors,
                              batch |-> r.batch, failed |-> r.failed])

\* news-api.ts:177-220 and 332-338: the list endpoint's call of
\* fetchTopHeadlines, the request to the upstream feed
Upstream(p, batch, ok, page) ==
  /\ req[p].pc = "upstream"
  /\ IF ~ok
     THEN /\ ev' = fetchAnswer(req[p], <<>>, <<FetchError>>, page)
          /\ req' = [req EXCEPT ![p] = IdleReq]
     ELSE /\ req' = [req EXCEPT ![p].pc = "lookup", ![p].queue = batch,
                                ![p].batch = batch]
          /\ ev' = NoEvent
  /\ UNCHANGED <<rev, now, cleanup, store, articlesInProgress, articlesBeingProcessed,
                 processedArticleUrls, tasks, nFetches, enrichCalls, seenAnalyzed>>

\* news-api.ts:172-220 and 332-338: fetchTopHeadlines called with the store
\* in any state (the refresh path of the list endpoint, the other callers),
\* the request to the upstream feed
CallFetch(p, batch, ok) ==
  /\ req[p].pc = "idle"
  /\ \A q \in Procs : SlotBefore(q, p) => req[q].pc # "idle"
  /\ nFetches < MaxFetches
  /\ nFetches' = nFetches + 1
  /\ IF ~ok
     THEN /\ ev' = fetchAnswer(IdleReq, <<>>, <<FetchError>>, 1)
          /\ UNCHANGED req
     ELSE /\ req' = [req EXCEPT ![p] =
                       [IdleReq EXCEPT !.pc = "lookup", !.queue = batch,
                                       !.batch = batch]]
          /\ ev' = NoEvent
  /\ UNCHANGED <<rev, now, cleanup, store, articlesInProgress, articlesBeingProcessed,
                 processedArticleUrls, tasks, enrichCalls, seenAnalyzed>>

\* ------------------------------------------------- storeArticle, tracker
\* part_007:55-76: the part of storeArticle that runs before its first
\* await.  ret is what it returns at once, or null when it goes on.
trackerPrelude(article, processing, urls) ==
  IF article.id \in processing
  THEN [ret |-> Some(ProcessingMarker(article.id)), processing |-> processing, urls |-> urls]
  ELSE IF ~article.url.empty /\ normalizeUrl(article.url) \in urls
  THEN [ret |-> Some(DuplicateMarker(article.id)), processing |-> processing, urls |-> urls]
  ELSE [ret |-> Null,
        processing |-> IF ~article.analyzed THEN processing \cup {article.id}
                       ELSE processing,
        urls |-> IF ~article.url.empty THEN urls \cup {normalizeUrl(article.url)}
                 ELSE urls]

\* storeArticle's duplicate search in the revision linked in
checkDuplicateArticle(st, article, out, listOk) ==
  CASE rev = "lib" -> checkDuplicateArticleLib(st, article, out, listOk)
    [] rev = "tracker" -> checkDuplicateArticleTracker(st, article, out, listOk)
    [] rev = "paged" -> checkDuplicateArticlePaged(st, article, out, listOk)

\* ------------------------------------------------------ fetchTopHeadlines
\* news-api.ts:290, 304  article.article_id || article.link
inProgressKey(raw) == OrElse(raw.article_id, raw.link.raw)

\* a storeArticle result that reports an existing record, not a write
IsDuplicateResult(result) == result.dup
\* a storeArticle result that is the locator of the record just written
IsPlaced(result) == result.kind = "url" /\ ~result.dup

\* news-api.ts:308  if (content)
hasContent(article) == article.content # ""

\* a task that starts at its final write, the call of analyzeArticle
\* (news-api.ts:349) left out
newTaskPastAnalysis(running, article, result) ==
  LET call(k) == [copy |-> k, article |-> article, pc |-> "put",
                  toPut |-> article, enrichOk |-> FALSE, candidateResult |-> result,
                  analysis |-> AnalysisFailure]
      free == {k \in 1..(Cardinality(running) + 1) : call(k) \notin running}
  IN  call(CHOOSE k \in free : \A j \in free : k <= j)

\* news-api.ts:309: a call of analyzeArticleInBackground that has not yet
\* passed its delay.  Calls are kept as a set, so copy tells apart calls
\* that agree in everything else; result is what storeArticle had returned
\* for the placeholder, analysis what analyzeArticle returned once called.
newTask(running, article, result) ==
  LET call(k) == [copy |-> k, article |-> article, pc |-> "analyze",
                  toPut |-> article, enrichOk |-> FALSE, candidateResult |-> result,
                  analysis |-> AnalysisFailure]
      free == {k \in 1..(Cardinality(running) + 1) : call(k) \notin running}
  IN  call(CHOOSE k \in free : \A j \in free : k <= j)

\* news-api.ts:301-316: what follows `await storeArticle(newArticle)`,
\* whatever storeArticle returned
FinishItem(p, result, twin, clean) ==
  LET r == req[p]
      raw == Head(r.queue)
      article == newArticle(raw)
      rest == Tail(r.queue)
      spawn == hasContent(article)
      replaced == IF IsPlaced(result) /\ article.id \in DOMAIN store
                  THEN Some(store[article.id]) ELSE Null
  IN  /\ articlesInProgress' = articlesInProgress \cup {inProgressKey(raw)}
      /\ tasks' = IF spawn THEN tasks \cup {newTask(tasks, article, result)}
                  ELSE tasks
      /\ req' = [req EXCEPT ![p].queue = rest,
                            ![p].results = Append(r.results, article),
                            ![p].pc = IF rest = <<>> THEN "return" ELSE "lookup",
                            ![p].twin = FALSE, ![p].clean = TRUE,
                            ![p].failed = IF result.kind = "error"
                                          THEN r.failed \cup {article.id}
                                          ELSE r.failed]
      /\ ev' = Event("stored", article.id,
                     [result |-> result, spawned |-> spawn, replaced |-> replaced,
                      twin |-> twin, clean |-> clean])

\* news-api.ts:286-300: the existence lookup; when it finds nothing,
\* storeArticle is called and runs up to its first await
ItemLookup(p, outcome) ==
  /\ req[p].pc = "lookup"
  /\ LET r == req[p]
         raw == Head(r.queue)
         article == newArticle(raw)
         rest == Tail(r.queue)
         existingArticle == getArticleFromBlob(store, IdKey(inProgressKey(raw)), outcome)
         twin == \E j \in DOMAIN store \ {article.id} :
                   SameLogicalUrl(store[j].url, article.url)
         clean == outcome = "ok"
         pre == trackerPrelude(article, articlesBeingProcessed, processedArticleUrls)
     IN  IF existingArticle # Null
         THEN /\ req' = [req EXCEPT ![p].queue = rest,
                                    ![p].results = Append(r.results, existingArticle[1]),
                                    ![p].pc = IF rest = <<>> THEN "return" ELSE "lookup"]
              /\ ev' = NoEvent
              /\ UNCHANGED <<articlesInProgress, articlesBeingProcessed,
                             processedArticleUrls, tasks>>
         ELSE IF rev = "tracker"
              THEN /\ articlesBeingProcessed' = pre.processing
                   /\ processedArticleUrls' = pre.urls
                   /\ IF pre.ret # Null
                      THEN FinishItem(p, pre.ret[1], twin, clean)
                      ELSE /\ req' = [req EXCEPT ![p].pc = "scan", ![p].twin = twin,
                                                 ![p].clean = clean]
                           /\ ev' = NoEvent
                           /\ UNCHANGED <<articlesInProgress, tasks>>
              ELSE /\ req' = [req EXCEPT ![p].pc = "scan", ![p].twin = twin,
                                         ![p].clean = clean]
                   /\ ev' = NoEvent
                   /\ UNCHANGED <<articlesInProgress, articlesBeingProcessed,
                                  processedArticleUrls, tasks>>
  /\ UNCHANGED <<rev, now, cleanup, store, nFetches, enrichCalls, seenAnalyzed>>

\* storeArticle of the placeholder, the duplicate search:
\* blob-storage.ts:16-28, part_007:78-91, part_007:535-547
ItemScan(p, out, listOk) ==
  /\ req[p].pc = "scan"
  /\ \A i \in Ids \ DOMAIN store : out[i] = "ok"
  /\ LET r == req[p]
         article == newArticle(Head(r.queue))
         isDuplicate == checkDuplicateArticle(store, article, out, listOk)
         clean == r.clean /\ listOk /\ \A i \in DOMAIN store : out[i] = "ok"
     IN  IF isDuplicate # Null
         THEN /\ articlesBeingProcessed' =
                   IF rev = "tracker" THEN articlesBeingProcessed \ {article.id}
                   ELSE articlesBeingProcessed
              /\ FinishItem(p, [isDuplicate[1] EXCEPT !.dup = TRUE], r.twin, clean)
         ELSE /\ req' = [req EXCEPT ![p].pc = "put", ![p].clean = clean]
              /\ ev' = NoEvent
              /\ UNCHANGED <<articlesInProgress, articlesBeingProcessed, tasks>>
  /\ UNCHANGED <<rev, now, cleanup, store, processedArticleUrls, nFetches, enrichCalls,
                 seenAnalyzed>>

\* storeArticle of the placeholder, the write:
\* blob-storage.ts:30-52, part_007:93-120, part_007:549-570
\* (part_007:559-562 passes no allowOverwrite; whether put then replaces
\* an existing blob is the blob service's answer, taken here as one of the
\* two outcomes of the write)
ItemPut(p, ok) ==
  /\ req[p].pc = "put"
  /\ LET r == req[p]
         article == newArticle(Head(r.queue))
     IN  /\ store' = IF ok THEN Put(store, withStoredAt(article, now)) ELSE store
         /\ articlesBeingProcessed' =
              IF rev = "tracker" /\ ~ok THEN articlesBeingProcessed \ {article.id}
              ELSE articlesBeingProcessed
         /\ FinishItem(p, IF ok THEN BlobUrl(article.id) ELSE ErrorMarker(article.id),
                       r.twin, r.clean /\ ok)
         /\ seenAnalyzed' = seenAnalyzed \cup readsAnalyzed(store')
  /\ UNCHANGED <<rev, now, cleanup, processedArticleUrls, nFetches, enrichCalls>>

\* a return that waits until no background task is left
FetchReturnAfterTasks(p, page) ==
  /\ req[p].pc = "return"
  /\ tasks = {}
  /\ ev' = fetchAnswer(req[p], req[p].results, req[p].errors, page)
  /\ req' = [req EXCEPT ![p] = IdleReq]
  /\ UNCHANGED <<rev, now, cleanup, store, articlesInProgress, articlesBeingProcessed,
                 processedArticleUrls, tasks, nFetches, enrichCalls, seenAnalyzed>>

\* news-api.ts:328-331 (and route.ts:49-106 when the list endpoint called)
FetchReturn(p, page) ==
  /\ req[p].pc = "return"
  /\ ev' = fetchAnswer(req[p], req[p].results, req[p].errors, page)
  /\ req' = [req EXCEPT ![p] = IdleReq]
  /\ UNCHANGED <<rev, now, cleanup, store, articlesInProgress, articlesBeingProcessed,
                 processedArticleUrls, tasks, nFetches, enrichCalls, seenAnalyzed>>

\* --------------------------------------------- analyzeArticleInBackground
TaskEnd(t, enrichOk, toPut, written, putFailed, result) ==
  Event("taskEnd", t.article.id,
        [enrichOk |-> enrichOk, toPut |-> toPut,
         written |-> written, putFailed |-> putFailed, result |-> result,
         candidateResult |-> t.candidateResult, analysis |-> t.analysis])

\* news-api.ts:342-373 and 380-388: after the delay, analyzeArticle is
\* called; from its result, or in the catch from its failure, the article
\* to write is built and storeArticle is called and runs up to its first
\* await.  (news-api.ts:394-397: the finally releases the in-progress key.)
BgAnalyze(t, an) ==
  /\ t \in tasks
  /\ t.pc = "analyze"
  /\ enrichCalls' = [enrichCalls EXCEPT ![t.article.id] = IF @ < 2 THEN @ + 1 ELSE @]
  /\ LET toPut == IF an.ok THEN updatedArticle(t.article, an)
                  ELSE failedArticle(t.article)
         pre == trackerPrelude(toPut, articlesBeingProcessed, processedArticleUrls)
         goOn == /\ tasks' = (tasks \ {t}) \cup
                             {[t EXCEPT !.pc = "put", !.toPut = toPut, !.enrichOk = an.ok,
                                        !.analysis = an]}
                 /\ ev' = NoEvent
                 /\ UNCHANGED articlesInProgress
     IN  IF rev = "tracker"
         THEN /\ articlesBeingProcessed' = pre.processing
              /\ processedArticleUrls' = pre.urls
              /\ IF pre.ret # Null
                 THEN /\ tasks' = tasks \ {t}
                      /\ articlesInProgress' = articlesInProgress \ {t.article.id}
                      /\ ev' = TaskEnd([t EXCEPT !.analysis = an], an.ok, toPut,
                                    FALSE, FALSE, pre.ret[1])
                 ELSE goOn
         ELSE /\ goOn
              /\ UNCHANGED <<articlesBeingProcessed, processedArticleUrls>>
  /\ UNCHANGED <<rev, now, cleanup, store, req, nFetches, seenAnalyzed>>

\* storeArticle of the updated article, the write (blob-storage.ts:30-52,
\* part_007:93-120, part_007:549-570), and the finally of
\* analyzeArticleInBackground (news-api.ts:394-397)
BgPut(t, ok) ==
  /\ t \in tasks
  /\ t.pc = "put"
  /\ store' = IF ok THEN Put(store, withStoredAt(t.toPut, now)) ELSE store
  /\ articlesBeingProcessed' =
       IF rev = "tracker" THEN articlesBeingProcessed \ {t.article.id}
       ELSE articlesBeingProcessed
  /\ articlesInProgress' = articlesInProgress \ {t.article.id}
  /\ tasks' = tasks \ {t}
  /\ ev' = TaskEnd(t, t.enrichOk, t.toPut, ok, ~ok,
                   IF ok THEN BlobUrl(t.article.id) ELSE ErrorMarker(t.article.id))
  /\ seenAnalyzed' = seenAnalyzed \cup readsAnalyzed(store')
  /\ UNCHANGED <<rev, now, cleanup, processedArticleUrls, req, nFetches, enrichCalls>>

\* ---------------------------------------------------------- specification
\* the ingestion pipeline under concurrent calls of fetchTopHeadlines
Next ==
  \/ \E p \in Procs, batch \in Batches, ok \in BOOLEAN : CallFetch(p, batch, ok)
  \/ \E p \in Procs, outcome \in FetchOutcomes : ItemLookup(p, outcome)
  \/ \E p \in Procs, out \in OutcomeMaps, listOk \in BOOLEAN : ItemScan(p, out, listOk)
  \/ \E p \in Procs, ok \in BOOLEAN : ItemPut(p, ok)
  \/ \E p \in Procs : FetchReturn(p, 1)
  \/ \E t \in tasks, an \in AnalysisOutcomes : BgAnalyze(t, an)
  \/ \E t \in tasks, ok \in BOOLEAN : BgPut(t, ok)

Spec == Init /\ [][Next]_vars

\* the list endpoint, one request at a time, with the background tasks of
\* earlier requests still running
RouteProcs == {"p1"}

NextRoute ==
  \/ \E p \in RouteProcs, refresh \in BOOLEAN, page \in Pages, pageSize \in PageSizes,
        out \in OutcomeMaps, listOk \in BOOLEAN :
       GetList(p, refresh, page, pageSize, out, listOk)
  \/ \E p \in RouteProcs, batch \in Batches, ok \in BOOLEAN, page \in Pages :
       Upstream(p, batch, ok, page)
  \/ \E p \in RouteProcs, outcome \in FetchOutcomes : ItemLookup(p, outcome)
  \/ \E p \in RouteProcs, out \in OutcomeMaps, listOk \in BOOLEAN : ItemScan(p, out, listOk)
  \/ \E p \in RouteProcs, ok \in BOOLEAN : ItemPut(p, ok)
  \/ \E p \in RouteProcs, page \in Pages : FetchReturn(p, page)
  \/ \E t \in tasks, an \in AnalysisOutcomes : BgAnalyze(t, an)
  \/ \E t \in tasks, ok \in BOOLEAN : BgPut(t, ok)

SpecRoute == Init /\ [][NextRoute]_vars

\* ------------------------------------------------------------------ claims
Idle == (\A p \in Procs : req[p].pc = "idle") /\ tasks = {}

\* C1: at-most-once enrichment: whatever the interleaving of the calls of
\* fetchTopHeadlines that carry the same item, analyzeArticle is called at
\* most once for that article.
C1_AtMostOnceEnrichment == \A i \in Ids : enrichCalls[i] <= 1

\* C2: store uniqueness: in every reachable state no two durable records
\* with different ids have the same normalized URL.
C2_StoreUniqueness ==
  \A i, j \in DOMAIN store :
    i # j => normalizeUrl(store[i].url) # normalizeUrl(store[j].url)

\* C3: dedup on URL: when storeArticle returns for a pending candidate that
\* was submitted while a record with another id and the same logical URL
\* (differing at most by protocol, www. prefix, query string, trailing
\* slash) was stored, and no store request of the call failed, it reports a
\* duplicate and the candidate's id has no record.
C3_DedupOnUrl ==
  (ev.type = "stored" /\ ev.info.twin /\ ev.info.clean)
    => (IsDuplicateResult(ev.info.result) /\ ev.id \notin DOMAIN store)

\* C4: eventual analysis: when the background task of a candidate whose
\* placeholder was stored ends, the enrichment call having succeeded and no
\* write having failed, the durable record under the candidate's id has
\* analyzed = true, the metrics the enrichment returned and non-empty
\* categories.
C4_EventualAnalysis ==
  (/\ ev.type = "taskEnd"
   /\ ev.info.enrichOk
   /\ IsPlaced(ev.info.candidateResult)
   /\ ~ev.info.putFailed)
    => /\ ev.id \in DOMAIN store
       /\ store[ev.id].analyzed
       /\ store[ev.id].metrics.scores = ev.info.toPut.metrics.scores
       /\ store[ev.id].categories # <<>>

\* C5: monotonic analyzed flag: an id that a read has once returned with
\* analyzed = true is, as long as it has a record, returned with
\* analyzed = true by getArticleFromBlob and by listArticlesFromBlob.
C5_MonotonicAnalyzed ==
  \A i \in seenAnalyzed \cap DOMAIN store :
    /\ getArticleFromBlob(store, IdKey(i), "ok")[1].analyzed
    /\ LET listed == listArticlesFromBlob(store, [j \in Ids |-> "ok"], TRUE)
       IN  \A k \in 1..Len(listed) : listed[k].id = i => listed[k].analyzed

\* C5, witness: a re-submission has just replaced the analyzed record of an
\* id, seen as analyzed before, by a placeholder with analyzed = false.
C5_Witness ==
  /\ ev.type = "stored"
  /\ ev.info.replaced # Null
  /\ ev.info.replaced[1].analyzed
  /\ ev.id \in seenAnalyzed
  /\ ev.id \in DOMAIN store
  /\ ~store[ev.id].analyzed

\* C6: enrichment failure keeps the record pending: when the background
\* task of a candidate whose placeholder was stored ends after the
\* enrichment call failed, the record under the candidate's id exists and
\* has analyzed = false.
C6_FailureKeepsPending ==
  (/\ ev.type = "taskEnd"
   /\ ~ev.info.enrichOk
   /\ IsPlaced(ev.info.candidateResult))
    => /\ ev.id \in DOMAIN store
       /\ ~store[ev.id].analyzed

\* C7: in-flight markers are released: whenever no fetch and no background
\* task is running, articlesInProgress and articlesBeingProcessed are empty.
C7_MarkersReleased ==
  Idle => (articlesInProgress = {} /\ articlesBeingProcessed = {})

\* C8: duplicate means no enrichment: when storeArticle reports a duplicate
\* for a pending candidate, no background enrichment is scheduled for it.
C8_DuplicateNoEnrichment ==
  (ev.type = "stored" /\ IsDuplicateResult(ev.info.result)) => ~ev.info.spawned

\* C9: analyzed-only listing: every article in an answer of the list
\* endpoint has analyzed = true, on the default, the refresh and the
\* empty-storage path.
C9_AnalyzedOnlyListing ==
  ev.type = "response"
    => \A k \in 1..Len(ev.info.body.articles) : ev.info.body.articles[k].analyzed

\* C10: pending is visible as pending: a placeholder record (analyzed =
\* false, zeroed metrics) of an id for which no enrichment has been made,
\* hence no analyzed write, is read back with analyzed = false.
C10_PendingVisible ==
  \A i \in DOMAIN store :
    (~store[i].analyzed /\ store[i].metrics = ZeroMetrics /\ enrichCalls[i] = 0)
      => ~getArticleFromBlob(store, IdKey(i), "ok")[1].analyzed

\* C11: idempotent write: when a storeArticle call with analyzed = true
\* returns for an id for which such a call was made before (each call of
\* analyzeArticle is followed by one), no other call for the id being under
\* way and no store request having failed, the record of the id is the
\* article of this later call.
C11_IdempotentWrite ==
  (/\ ev.type = "taskEnd"
   /\ enrichCalls[ev.id] >= 2
   /\ ~ev.info.putFailed
   /\ \A t \in tasks : t.article.id = ev.id => t.pc # "put")
    => /\ ev.id \in DOMAIN store
       /\ store[ev.id] = withStoredAt(ev.info.toPut, now)

\* ------------------------------------------------- batches of several items
\* an item of the feed that carries no title
RawD == [RawC EXCEPT !.title = <<>>, !.content = "txt"]

\* items whose title "X z" contains, after normalisation, the title "X!" of
\* RawA, at another url: RawF from another source, RawG from RawA's source
RawF == [RawC EXCEPT !.title = <<"X", " ", "z">>, !.content = "txt"]
RawG == [RawF EXCEPT !.source_id = "s1"]

\* what the feed returns to one request
BatchesOfTwo ==
  {<<RawA, RawB>>, <<RawA, RawD>>, <<RawD, RawB>>, <<RawA, RawF>>, <<RawA, RawG>>}

\* the first call of fetchTopHeadlines, on a batch of two items, with the
\* background task of the first item running while the second is handled
NextBatch ==
  \/ \E p \in RouteProcs, batch \in BatchesOfTwo, ok \in BOOLEAN :
       nFetches = 0 /\ CallFetch(p, batch, ok)
  \/ \E p \in RouteProcs, outcome \in FetchOutcomes : ItemLookup(p, outcome)
  \/ \E p \in RouteProcs, out \in OutcomeMaps, listOk \in BOOLEAN : ItemScan(p, out, listOk)
  \/ \E p \in RouteProcs, ok \in BOOLEAN : ItemPut(p, ok)
  \/ \E p \in RouteProcs : FetchReturn(p, 1)
  \/ \E t \in tasks, an \in AnalysisOutcomes : BgAnalyze(t, an)
  \/ \E t \in tasks, ok \in BOOLEAN : BgPut(t, ok)

SpecBatch == Init /\ [][NextBatch]_vars

\* the ids of the items of a batch
RECURSIVE batchIds(_)
batchIds(batch) ==
  IF batch = <<>> THEN {} ELSE {Head(batch).article_id} \cup batchIds(Tail(batch))

\* C12: partial-batch resilience: when a fetchTopHeadlines call returns in
\* which the put of some candidates failed, the errors list has an entry
\* for each of them, and every other candidate of the batch is among the
\* returned articles and, unless storeArticle reported it as present
\* already, was written.
C12_PartialBatch ==
  ev.type = "returned" =>
    /\ \A i \in ev.info.failed :
         \E k \in 1..Len(ev.info.errors) : ev.info.errors[k] = StoreError(i)
    /\ \A i \in batchIds(ev.info.batch) \ ev.info.failed :
         \E k \in 1..Len(ev.info.articles) : ev.info.articles[k].id = i

\* C13: title required: no record, no background task and no returned
\* article comes from a raw item whose title is empty.
C13_TitleRequired ==
  /\ \A i \in DOMAIN store : store[i].title # <<>>
  /\ \A t \in tasks : t.article.title # <<>>
  /\ ev.type = "returned" =>
       \A k \in 1..Len(ev.info.articles) : ev.info.articles[k].title # <<>>

\* ------------------------------------------------- the other endpoints
\* how a call ends: it returns a value or it throws
Return(v) == [kind |-> "return", value |-> v]
Throw(e) == [kind |-> "throw", value |-> e]

\* a catch block that lets the error through
catchRethrow(r) == r
\* try { ... } catch (error) { ...; return null }
catchNull(r) == IF r.kind = "throw" THEN Return(Null) ELSE r

\* what the store answers to one getArticleFromBlob call: the list request
\* rejects ("listFails"); or the fetch of the blob is aborted by the
\* 5-second timeout, answers 404, 429 or 500, answers with a body that is
\* not JSON, or answers with the record
ReadOutcomes == {"ok", "listFails", "timeout", "r404", "r429", "r500", "badJson"}

\* the outcome as the pipeline tells them apart
coarse(outcome) ==
  CASE outcome = "ok" -> "ok"
    [] outcome = "r429" -> "r429"
    [] OTHER -> "err"

\* blob-storage.ts:228-261, part_007:241-280, part_007:741-774: the fetch
\* of the blob found and the parse of its body
fetchAndParse(st, key, outcome) ==
  IF outcome = "timeout" THEN Throw("AbortError")
  ELSE IF outcome = "r404" /\ rev = "tracker" THEN Return(Null)
  ELSE IF outcome \in {"r404", "r429", "r500"} THEN Throw("Failed to fetch article")
  ELSE IF outcome = "badJson" THEN catchNull(Throw("SyntaxError"))
  ELSE Return(Some(readCoerce(st[key.name])))

\* blob-storage.ts:214-266, part_007:223-290, part_007:727-779: the whole
\* call, with its catch blocks
getArticleFromBlobCall(st, key, outcome) ==
  catchNull(
    IF rev = "tracker" /\ key.name = "" THEN Return(Null)
    ELSE IF outcome = "listFails" THEN Throw("list")
    ELSE IF ~HasBlob(st, key) THEN Return(Null)
    ELSE IF rev = "tracker" THEN catchNull(fetchAndParse(st, key, outcome))
    ELSE fetchAndParse(st, key, outcome))

\* add/route.ts:9: the body of a POST request, written with the fields of a
\* feed item; the item's id stands for the uuid the route draws
addRequest(raw) ==
  [title |-> raw.title, content |-> OrElse(raw.content, raw.description),
   url |-> raw.link, source |-> raw.source_id]

\* add/route.ts:22-34
addedArticle(id, body, an) ==
  [id |-> id,
   title |-> body.title,
   content |-> an.aiSummary,
   url |-> body.url,
   source |-> OrElse(body.source, "Manual Entry"),
   metrics |-> an.metrics,
   analyzed |-> TRUE,
   aiSummary |-> "",
   categories |-> <<>>]

\* add/route.ts:7-44: POST /api/articles/add.  storeArticle is called with
\* analyzed = true, so it makes no duplicate search (blob-storage.ts:16,
\* part_007:78, 535) and its only request to the store is the put.
AddArticle(raw, an, ok) ==
  /\ enrichCalls[raw.article_id] = 0
  /\ LET id == raw.article_id
         body == addRequest(raw)
         article == addedArticle(id, body, an)
         pre == trackerPrelude(article, articlesBeingProcessed, processedArticleUrls)
         early == rev = "tracker" /\ pre.ret # Null
     IN  IF body.title = <<>> \/ body.content = ""
         THEN /\ ev' = Event("added", id, [status |-> 400, result |-> Null])
              /\ UNCHANGED <<store, enrichCalls, articlesBeingProcessed,
                             processedArticleUrls, seenAnalyzed>>
         ELSE /\ enrichCalls' = [enrichCalls EXCEPT ![id] = 1]
              /\ IF ~an.ok
                 THEN /\ ev' = Event("added", id, [status |-> 500, result |-> Null])
                      /\ UNCHANGED <<store, articlesBeingProcessed,
                                     processedArticleUrls, seenAnalyzed>>
                 ELSE /\ store' = IF ok /\ ~early
                                  THEN Put(store, withStoredAt(article, now))
                                  ELSE store
                      /\ processedArticleUrls' =
                           IF rev = "tracker" THEN pre.urls ELSE processedArticleUrls
                      /\ articlesBeingProcessed' =
                           IF rev = "tracker" /\ ~early
                           THEN articlesBeingProcessed \ {id}
                           ELSE articlesBeingProcessed
                      /\ seenAnalyzed' = seenAnalyzed \cup readsAnalyzed(store')
                      /\ ev' = Event("added", id,
                                     [status |-> 200,
                                      result |-> Some(IF early THEN pre.ret[1]
                                                      ELSE IF ok THEN BlobUrl(id)
                                                      ELSE ErrorMarker(id))])
  /\ UNCHANGED <<rev, now, cleanup, articlesInProgress, req, tasks, nFetches>>

\* the ids a by-id request is made for: the ids of the items and the
\* empty string
ById == Ids \cup {""}

\* part_003:4-21: GET /api/articles/[id]
byIdStatus(call) ==
  IF call.kind = "throw" THEN 500
  ELSE IF call.value = Null THEN 404
  ELSE IF ~call.value[1].analyzed THEN 400
  ELSE 200

GetById(id, outcome) ==
  /\ LET call == getArticleFromBlobCall(store, IdKey(id), outcome)
     IN  ev' = Event("byId", id,
                     [outcome |-> outcome, call |-> call, status |-> byIdStatus(call)])
  /\ UNCHANGED <<rev, now, cleanup, store, articlesInProgress, articlesBeingProcessed,
                 processedArticleUrls, req, tasks, nFetches, enrichCalls, seenAnalyzed>>

\* the add and the by-id endpoint
NextById ==
  \/ \E raw \in RawItems \cup {RawD}, an \in AnalysisOutcomes, ok \in BOOLEAN :
       AddArticle(raw, an, ok)
  \/ \E id \in ById, outcome \in ReadOutcomes : GetById(id, outcome)

SpecById == Init /\ [][NextById]_vars

\* C14: getById never throws: whatever the store answers, a call of
\* getArticleFromBlob returns, and it returns null or the record of the id
\* as a read gives it, which is what the pipeline's lookup takes it to
\* return.
C14_GetByIdNeverThrows ==
  ev.type = "byId" =>
    /\ ev.info.call.kind = "return"
    /\ ev.info.call.value \in
         {Null} \cup {Some(readCoerce(store[i])) : i \in DOMAIN store \cap {ev.id}}
    /\ ev.info.call.value =
         getArticleFromBlob(store, IdKey(ev.id), coarse(ev.info.outcome))
    /\ ev.info.status # 500

\* C14, witness: the fetch of an existing record timed out and the call
\* returned null.
C14_Witness ==
  /\ ev.type = "byId"
  /\ ev.id \in DOMAIN store
  /\ ev.info.outcome = "timeout"
  /\ ev.info.call = Return(Null)

\* ----------------------------------------------------------------- cleanup
\* blob-storage.ts:5
MAX_AGE_MS == 3600000

\* the moments the clock is looked at
Times == {0, 1, MAX_AGE_MS + 1}

\* time passes
Tick(t) ==
  /\ t \in Times
  /\ t > now
  /\ now' = t
  /\ ev' = NoEvent
  /\ UNCHANGED <<rev, cleanup, store, articlesInProgress, articlesBeingProcessed,
                 processedArticleUrls, req, tasks, nFetches, enrichCalls, seenAnalyzed>>

\* blob-storage.ts:390  if (!article.storedAt) continue
HasStoredAt(article) == "storedAt" \in DOMAIN article

\* an age test that also takes a record exactly as old as the TTL
isExpiredAtTTL(ageMs) == ageMs >= MAX_AGE_MS
\* blob-storage.ts:395
isExpired(ageMs) == ageMs > MAX_AGE_MS

\* what cleanupOldArticles did with one blob: the record it read (null when
\* the fetch or the parse failed), whether it asked for the delete, whether
\* the delete succeeded, and the record the delete removed
Visit(id, read, requested, delOk, removed) ==
  [id |-> id, read |-> read, requested |-> requested, delOk |-> delOk,
   removed |-> removed]

\* blob-storage.ts:346-350 and 415-418: the list request
CleanupStart(listOk) ==
  /\ cleanup.pc = "idle"
  /\ IF listOk
     THEN /\ cleanup' = [IdleCleanup EXCEPT !.pc = "fetch", !.started = now,
                                            !.blobs = BlobList(store)]
          /\ ev' = NoEvent
     ELSE /\ ev' = Event("cleanup", "", [deletedCount |-> 0, started |-> now, log |-> {}])
          /\ UNCHANGED cleanup
  /\ UNCHANGED <<rev, now, store, articlesInProgress, articlesBeingProcessed,
                 processedArticleUrls, req, tasks, nFetches, enrichCalls, seenAnalyzed>>

\* blob-storage.ts:353-398: the fetch of the next blob and the test of its
\* age
CleanupFetch(outcome) ==
  /\ cleanup.pc = "fetch"
  /\ cleanup.blobs # <<>>
  /\ LET id == Head(cleanup.blobs)
         readable == id \in DOMAIN store /\ outcome = "ok"
         article == store[id]
     IN  /\ id \notin DOMAIN store => outcome = "err"
         /\ IF readable /\ HasStoredAt(article)
                /\ isExpired(cleanup.started - article.storedAt)
            THEN cleanup' = [cleanup EXCEPT !.pc = "delete", !.read = Some(article)]
            ELSE cleanup' = [cleanup EXCEPT
                   !.blobs = Tail(@),
                   !.log = @ \cup {Visit(id, IF readable THEN Some(article) ELSE Null,
                                         FALSE, FALSE, Null)}]
  /\ ev' = NoEvent
  /\ UNCHANGED <<rev, now, store, articlesInProgress, articlesBeingProcessed,
                 processedArticleUrls, req, tasks, nFetches, enrichCalls, seenAnalyzed>>

\* del(`articles/${id}.json`)
Del(st, id) == [i \in DOMAIN st \ {id} |-> st[i]]

\* blob-storage.ts:396-406 with deleteArticleFromBlob (337-343): the delete
\* request, whose failure is logged and not reported
CleanupDelete(ok) ==
  /\ cleanup.pc = "delete"
  /\ LET id == Head(cleanup.blobs)
         removed == IF ok /\ id \in DOMAIN store THEN Some(store[id]) ELSE Null
     IN  /\ store' = IF ok THEN Del(store, id) ELSE store
         /\ cleanup' = [cleanup EXCEPT
               !.pc = "fetch", !.blobs = Tail(@), !.read = Null,
               !.deletedCount = @ + 1,
               !.log = @ \cup {Visit(id, cleanup.read, TRUE, ok, removed)}]
         \* part_007:375: markArticleAsFinished after a del that succeeded
         /\ articlesBeingProcessed' =
              IF rev = "tracker" /\ ok THEN articlesBeingProcessed \ {id}
              ELSE articlesBeingProcessed
  /\ ev' = NoEvent
  /\ UNCHANGED <<rev, now, articlesInProgress, processedArticleUrls, req, tasks,
                 nFetches, enrichCalls, seenAnalyzed>>

\* blob-storage.ts:413-414
CleanupReturn ==
  /\ cleanup.pc = "fetch"
  /\ cleanup.blobs = <<>>
  /\ ev' = Event("cleanup", "", [deletedCount |-> cleanup.deletedCount,
                                 started |-> cleanup.started, log |-> cleanup.log])
  /\ cleanup' = IdleCleanup
  /\ UNCHANGED <<rev, now, store, articlesInProgress, articlesBeingProcessed,
                 processedArticleUrls, req, tasks, nFetches, enrichCalls, seenAnalyzed>>

\* a record under articles/ that carries no storedAt: one that no
\* storeArticle of these revisions wrote
LegacyRecord == updatedArticle(newArticle(RawC), CHOOSE an \in Analyses : TRUE)

\* the store is empty or holds a record without storedAt
InitCleanup ==
  /\ rev \in Revs
  /\ store \in {<<>>, [i \in {"c"} |-> LegacyRecord]}
  /\ articlesInProgress = {}
  /\ articlesBeingProcessed = {}
  /\ processedArticleUrls = {}
  /\ req = [p \in Procs |-> IdleReq]
  /\ tasks = {}
  /\ nFetches = 0
  /\ enrichCalls = [i \in Ids |-> 0]
  /\ seenAnalyzed = {}
  /\ ev = NoEvent
  /\ now = 0
  /\ cleanup = IdleCleanup

\* the cleanup job (part_006:4-18 calls cleanupOldArticles) while time
\* passes, next to a first call of fetchTopHeadlines with its background
\* task and to requests to the list endpoint that the store can answer
NextCleanup ==
  \/ \E p \in RouteProcs, page \in Pages, pageSize \in PageSizes,
        out \in OutcomeMaps, listOk \in BOOLEAN :
       GetList(p, FALSE, page, pageSize, out, listOk) /\ UNCHANGED req
  \/ \E p \in RouteProcs, batch \in Batches, ok \in BOOLEAN :
       nFetches = 0 /\ CallFetch(p, batch, ok)
  \/ \E p \in RouteProcs, outcome \in FetchOutcomes : ItemLookup(p, outcome)
  \/ \E p \in RouteProcs, out \in OutcomeMaps, listOk \in BOOLEAN : ItemScan(p, out, listOk)
  \/ \E p \in RouteProcs, ok \in BOOLEAN : ItemPut(p, ok)
  \/ \E p \in RouteProcs : FetchReturn(p, 1)
  \/ \E t \in tasks, an \in AnalysisOutcomes : BgAnalyze(t, an)
  \/ \E t \in tasks, ok \in BOOLEAN : BgPut(t, ok)
  \/ \E t \in Times : Tick(t)
  \/ \E listOk \in BOOLEAN : CleanupStart(listOk)
  \/ \E outcome \in {"ok", "err"} : CleanupFetch(outcome)
  \/ \E ok \in BOOLEAN : CleanupDelete(ok)
  \/ CleanupReturn

SpecCleanup == InitCleanup /\ [][NextCleanup]_vars

\* a record that has a storedAt more than the TTL before the moment t
olderThanTTL(article, t) ==
  HasStoredAt(article) /\ t - article.storedAt > MAX_AGE_MS

C16_CleanupCount ==
  ev.type = "cleanup" =>
    ev.info.deletedCount = Cardinality({e \in ev.info.log : e.removed # Null})

\* C17: no expired article is served: no article in an answer of the list
\* endpoint on its default path has a storedAt older than the TTL.
C17_NoExpiredServed ==
  (ev.type = "response" /\ ev.info.path = "default") =>
    \A k \in 1..Len(ev.info.body.articles) :
      ~olderThanTTL(ev.info.body.articles[k], now)

\* C18: final de-duplication: no two articles of an answer of the list
\* endpoint have URLs that differ at most by protocol, www. prefix, query
\* string and trailing slash, and no two have the same lower-cased title
\* and the same source.
C18_FinalDedup ==
  ev.type = "response" =>
    \A j, k \in 1..Len(ev.info.body.articles) :
      j < k =>
        /\ ~SameLogicalUrl(ev.info.body.articles[j].url, ev.info.body.articles[k].url)
        /\ titleSourceKey(ev.info.body.articles[j]) # titleSourceKey(ev.info.body.articles[k])

\* -------------------------------------------------------------- pagination
\* the longest list cut into pages
MaxLen == 3

\* the articles the lists are made of: no two have the same URL or the same
\* title and source
ListPool == {newArticle(raw) : raw \in RawItems}

\* the lists the final de-duplication leaves as they are
DedupLists ==
  {l \in UNION {[1..n -> ListPool] : n \in 0..MaxLen} : uniqueArticles(l) = l}

\* route.ts:97-106: the answer to a request for one page of a list
Paginate(list, page, pageSize) ==
  /\ ev' = Event("page", "",
                 [list |-> list, page |-> page, pageSize |-> pageSize,
                  body |-> respond(list, <<>>, page, pageSize)])
  /\ UNCHANGED <<rev, now, cleanup, store, articlesInProgress, articlesBeingProcessed,
                 processedArticleUrls, req, tasks, nFetches, enrichCalls, seenAnalyzed>>

NextPage ==
  \E list \in DedupLists, page \in 1..(MaxLen + 1), pageSize \in 1..MaxLen :
    Paginate(list, page, pageSize)

SpecPage == Init /\ [][NextPage]_vars

\* the number of pages of a list: ceil(|L| / p)
pageCount(list, pageSize) == (Len(list) + pageSize - 1) \div pageSize

\* the articles of pages k..n of a list, one after the other
RECURSIVE pagesFrom(_, _, _, _)
pagesFrom(list, pageSize, k, n) ==
  IF k > n THEN <<>>
  ELSE respond(list, <<>>, k, pageSize).articles \o pagesFrom(list, pageSize, k + 1, n)

\* C19: pagination partitions the result: for a deduplicated list L and a
\* page size p, the answer to a request for a page is that page's cut; the
\* pages 1..ceil(|L|/p) are the consecutive slices of p articles of L (the
\* last one shorter), and put one after the other they give L;
\* totalArticles is |L| on every page; hasMore is true exactly when the next
\* page is not empty.
C19_PaginationPartitions ==
  ev.type = "page" =>
    LET L == ev.info.list
        p == ev.info.pageSize
        n == pageCount(L, p)
        pg(k) == respond(L, <<>>, k, p)
        upTo(k) == IF k * p < Len(L) THEN k * p ELSE Len(L)
    IN  /\ ev.info.body = pg(ev.info.page)
        /\ pagesFrom(L, p, 1, n) = L
        /\ \A k \in 1..n :
             /\ pg(k).articles = SubSeq(L, (k - 1) * p + 1, upTo(k))
             /\ pg(k).articles # <<>>
        /\ \A k \in 1..(n + 1) :
             /\ pg(k).totalArticles = Len(L)
             /\ pg(k).hasMore <=> pg(k + 1).articles # <<>>

\* C19, witness: the second page of a list of three articles cut into
\* pages of two has been asked for: it holds the third article and reports
\* no further page.
C19_Witness ==
  /\ ev.type = "page"
  /\ Len(ev.info.list) = 3
  /\ ev.info.pageSize = 2
  /\ ev.info.page = 2
  /\ ev.info.body.articles = <<ev.info.list[3]>>
  /\ ~ev.info.body.hasMore
  /\ ev.info.body.totalArticles = 3

\* -------------------------------------------------------------- enrichment
\* the three revisions of analyzeArticle: "lib" is src/lib/ai.ts, "first"
\* is part_007:938-1008, "strict" is part_007:1068-1237
AiRevs == {"lib", "first", "strict"}

\* the value of a field of the parsed response: a number, a string, null,
\* or undefined when the field is missing
JsonNum(n) == [t |-> "num", v |-> n, s |-> ""]
JsonStr(str) == [t |-> "str", v |-> 0, s |-> str]
JsonNull == [t |-> "null", v |-> 0, s |-> ""]
Undefined == [t |-> "undefined", v |-> 0, s |-> ""]

ScoreValues ==
  {JsonNum(0 - 5), JsonNum(0), JsonNum(50), JsonNum(100), JsonNum(150),
   JsonStr("abc"), JsonStr("42"), JsonStr(""), JsonNull, Undefined}

\* the numeric scores of ArticleMetrics that all revisions return
ScoreFields == {"clickbaitScore", "biasScore", "sentimentScore", "readabilityScore"}

\* ai.ts:101-115, part_007:993-999: the default of each score
defaultScore(field) == IF field = "readabilityScore" THEN 70 ELSE 50

\* Number(value): null (NaN) or the number
toNumber(value) ==
  CASE value.t = "num" -> Some(value.v)
    [] value.t = "null" -> Some(0)
    [] value.t = "undefined" -> Null
    [] value.t = "str" -> IF value.s = "" THEN Some(0)
                          ELSE IF value.s = "42" THEN Some(42)
                          ELSE Null

\* Math.min(max, Math.max(min, num))
clamp(num, min, max) == IF num < min THEN min ELSE IF num > max THEN max ELSE num

\* ai.ts:166-170
validateNumber(value, min, max, defaultValue) ==
  LET num == toNumber(value)
  IN  IF num = Null THEN Return(JsonNum(defaultValue))
      ELSE Return(JsonNum(clamp(num[1], min, max)))

\* part_007:1239-1247
validateNumberStrict(value, min, max) ==
  LET num == toNumber(value)
  IN  IF num = Null THEN Throw("Invalid number value")
      ELSE Return(JsonNum(clamp(num[1], min, max)))

\* part_007:993-999: value || default
orDefault(value, defaultValue) ==
  IF \/ value.t \in {"null", "undefined"}
     \/ value.t = "num" /\ value.v = 0
     \/ value.t = "str" /\ value.s = ""
  THEN Return(JsonNum(defaultValue))
  ELSE Return(value)

\* analyzeArticle on a response that parses as JSON, for one score: how
\* the call ends and, when it returns, the score in its result
\* (ai.ts:100-150, part_007:992-1002, part_007:1125-1237)
analyzeScore(aiRev, field, value) ==
  CASE aiRev = "lib" -> validateNumber(value, 0, 100, defaultScore(field))
    [] aiRev = "first" -> orDefault(value, defaultScore(field))
    [] aiRev = "strict" -> validateNumberStrict(value, 0, 100)

\* a call of analyzeArticle whose response carries value in field
AnalyzeArticle(aiRev, field, value) ==
  /\ ev' = Event("analyzed", "",
                 [aiRev |-> aiRev, field |-> field, value |-> value,
                  call |-> analyzeScore(aiRev, field, value)])
  /\ UNCHANGED <<rev, now, cleanup, store, articlesInProgress, articlesBeingProcessed,
                 processedArticleUrls, req, tasks, nFetches, enrichCalls, seenAnalyzed>>

NextAnalyze ==
  \E aiRev \in AiRevs, field \in ScoreFields, value \in ScoreValues :
    AnalyzeArticle(aiRev, field, value)

SpecAnalyze == Init /\ [][NextAnalyze]_vars

\* C20: enrichment clamp: a call of analyzeArticle whose response parses
\* returns, each score of its result is a number in [0,100], a value above
\* 100 gives 100 and a value below 0 gives 0.
C20_EnrichmentClamp ==
  ev.type = "analyzed" =>
    /\ ev.info.call.kind = "return"
    /\ ev.info.call.value.t = "num"
    /\ ev.info.call.value.v \in 0..100
    /\ (ev.info.value.t = "num" /\ ev.info.value.v > 100) => ev.info.call.value.v = 100
    /\ (ev.info.value.t = "num" /\ ev.info.value.v < 0) => ev.info.call.value.v = 0

\* ------------------------------------------------------------- categories
\* ai.ts:133  c.toLowerCase() on the category names used below
lowerCategory(c) == IF c = "Politics" THEN "politics" ELSE c

RECURSIVE lowerCategories(_)
lowerCategories(cats) ==
  IF cats = <<>> THEN <<>>
  ELSE <<lowerCategory(Head(cats))>> \o lowerCategories(Tail(cats))

\* ai.ts:126-138: the valid categories of the model's answer, at most three;
\* Null is an answer whose categories field is not an array
validCategories(response) ==
  IF response = Null THEN <<>>
  ELSE Take(SelectSeq(lowerCategories(response[1]), IsArticleCategory), 3)

\* the extraction without the fallback of ai.ts:141-143
aiCategoriesNoFallback(response) == validCategories(response)

\* ai.ts:126-143
aiCategories(response) ==
  IF Len(validCategories(response)) = 0 THEN <<"other">>
  ELSE validCategories(response)

\* categories fields of the model's answer: no array, an empty one, a
\* capitalised name, an unknown name, more than three names
Responses ==
  {Null, Some(<<>>), Some(<<"Politics">>), Some(<<"gossip">>),
   Some(<<"war", "gossip", "health", "science", "food">>)}

\* ai.ts:145-150: what analyzeArticle returns for each answer
AnalysesOf(responses) ==
  {[ok |-> TRUE, metrics |-> [scores |-> "m1"], aiSummary |-> "sum",
    categories |-> aiCategories(rc), response |-> rc] : rc \in responses}

\* an upstream item with more than three distinct categories
RawE ==
  [RawC EXCEPT !.content = "txt",
               !.category = <<"politics", "tech", "health", "food", "science">>]

\* one call of fetchTopHeadlines on a batch of one item, and its background
\* tasks with every answer of the enrichment service
NextCategories ==
  \/ \E p \in RouteProcs, batch \in {<<RawA>>, <<RawB>>, <<RawE>>}, ok \in BOOLEAN :
       nFetches = 0 /\ CallFetch(p, batch, ok)
  \/ \E p \in RouteProcs, outcome \in FetchOutcomes : ItemLookup(p, outcome)
  \/ \E p \in RouteProcs, out \in OutcomeMaps, listOk \in BOOLEAN :
       ItemScan(p, out, listOk)
  \/ \E p \in RouteProcs, ok \in BOOLEAN : ItemPut(p, ok)
  \/ \E p \in RouteProcs : FetchReturn(p, 1)
  \/ \E t \in tasks, an \in AnalysesOf(Responses) \cup {AnalysisFailure} :
       BgAnalyze(t, an)
  \/ \E t \in tasks, ok \in BOOLEAN : BgPut(t, ok)

SpecCategories == Init /\ [][NextCategories]_vars

C22_AddReportsStoreFailure ==
  (ev.type = "added" /\ ev.info.status = 200)
    => /\ ev.info.result = Some(BlobUrl(ev.id))
       /\ ev.id \in DOMAIN store

\* -------------------------------------------------------- title matching
\* every read of the scan succeeds
AllOk == [i \in Ids |-> "ok"]

\* the stored records other than the candidate's own that have the
\* candidate's source and a title similar to the candidate's
titleTwins(st, article) ==
  {j \in DOMAIN st \ {article.id} :
     st[j].source = article.source /\ similarTitles(st[j].title, article.title)}

\* C23: a candidate with a url whose normalised title contains, or is
\* contained in, the title of a readable stored record of the same source
\* is flagged by the scan as a duplicate, and a candidate is never flagged
\* on the title alone against a record of another source.
C23_FuzzyTitle ==
  /\ \A p \in RouteProcs :
       (req[p].pc = "scan" /\ ~newArticle(Head(req[p].queue)).url.empty
          /\ titleTwins(store, newArticle(Head(req[p].queue))) # {})
       => checkDuplicateArticle(store, newArticle(Head(req[p].queue)),
                                AllOk, TRUE) # Null
  /\ \A p \in RouteProcs :
       (/\ ev.type = "stored"
        /\ ev.info.result.kind = "url"
        /\ ev.info.result.dup
        /\ req[p].results # <<>>
        /\ req[p].results[Len(req[p].results)].id = ev.id)
       => LET article == req[p].results[Len(req[p].results)]
              existing == store[ev.info.result.id]
          IN  \/ SameLogicalUrl(existing.url, article.url)
              \/ ev.info.result.id \in titleTwins(store, article)

\* news-api.ts:310-313: the entry pushed when the promise of
\* analyzeArticleInBackground rejects
AnalyzeError(id) == [kind |-> "analyze", id |-> id]

\* C24: when the enrichment of an article fails while the call of
\* fetchTopHeadlines that submitted it is still running, the errors list of
\* that call, which is the list delivered to its caller, has an entry for
\* the failure.
C24_EnrichmentFailureReported ==
  \A p \in RouteProcs :
    (/\ ev.type = "taskEnd"
     /\ ~ev.info.enrichOk
     /\ req[p].pc # "idle"
     /\ ev.id \in batchIds(req[p].batch))
    => \E k \in 1..Len(req[p].errors) : req[p].errors[k] = AnalyzeError(ev.id)

\* ------------------------------------------------ scans of a filled store
\* an item at the url of RawC, and with it the stored record "c"
RawH == [RawB EXCEPT !.link = UrlB, !.content = "txt"]

\* the store holds the placeholders of RawA and RawC, written by an
\* earlier run of the service
InitScan ==
  /\ rev \in Revs
  /\ store = [i \in {"a", "c"} |->
               withStoredAt(newArticle(IF i = "a" THEN RawA ELSE RawC), 0)]
  /\ articlesInProgress = {}
  /\ articlesBeingProcessed = {}
  /\ processedArticleUrls = {}
  /\ req = [p \in Procs |-> IdleReq]
  /\ tasks = {}
  /\ nFetches = 0
  /\ enrichCalls = [i \in Ids |-> 0]
  /\ seenAnalyzed = {}
  /\ ev = NoEvent
  /\ now = 0
  /\ cleanup = IdleCleanup

\* one call of fetchTopHeadlines with an item that has the url of a stored
\* record, and its background task, while time passes
NextScan ==
  \/ \E p \in RouteProcs, batch \in {<<RawH>>, <<RawB>>}, ok \in BOOLEAN :
       nFetches = 0 /\ CallFetch(p, batch, ok)
  \/ \E p \in RouteProcs, outcome \in FetchOutcomes : ItemLookup(p, outcome)
  \/ \E p \in RouteProcs, out \in OutcomeMaps, listOk \in BOOLEAN :
       ItemScan(p, out, listOk)
  \/ \E p \in RouteProcs, ok \in BOOLEAN : ItemPut(p, ok)
  \/ \E p \in RouteProcs : FetchReturn(p, 1)
  \/ \E t \in tasks, an \in AnalysisOutcomes : BgAnalyze(t, an)
  \/ \E t \in tasks, ok \in BOOLEAN : BgPut(t, ok)
  \/ \E t \in Times : Tick(t)

SpecScan == InitScan /\ [][NextScan]_vars

\* C25: when the first content fetch of the duplicate scan is answered with
\* 429 (the url of the candidate is in no pathname), the scan examines no
\* later entry and checkDuplicateArticle reports no duplicate, whatever the
\* other entries hold, so that storeArticle goes on to write the candidate.
C25_RateLimitAbortsScan ==
  \A p \in RouteProcs :
    req[p].pc = "scan" =>
      LET article == newArticle(Head(req[p].queue))
          blobs == BlobList(store)
      IN  \A out \in OutcomeMaps :
            (/\ ~article.url.empty
             /\ blobs # <<>>
             /\ Head(blobs) # article.id
             /\ out[Head(blobs)] = "r429"
             /\ \A j \in DOMAIN store :
                  /\ ~pathnameIncludesUrl(j, article.url)
                  /\ normalizeUrlOfId(j) # normalizeUrl(article.url))
            => checkDuplicateArticle(store, article, out, TRUE) = Null

\* -------------------------------------------------------------- lifecycle
\* the ids of the items a call has not finished handling
RECURSIVE queuedIds(_)
queuedIds(queue) ==
  IF queue = <<>> THEN {} ELSE {Head(queue).article_id} \cup queuedIds(Tail(queue))

\* C26: lifecycle ordering within one call of fetchTopHeadlines: while an
\* item is still being handled (its placeholder write has not completed)
\* its enrichment has not been called and it has no background task; while
\* its task waits for the enrichment no analyzed record of it has been
\* written; and its task reaches the final write only after the enrichment
\* call was made.  The steps of the other item's task do not change this.
C26_LifecycleOrder ==
  /\ \A p \in RouteProcs : \A i \in queuedIds(req[p].queue) :
       /\ enrichCalls[i] = 0
       /\ \A t \in tasks : t.article.id # i
       /\ i \in DOMAIN store => ~store[i].analyzed
  /\ \A t \in tasks :
       /\ t.pc = "analyze" =>
            /\ enrichCalls[t.article.id] = 0
            /\ t.article.id \in DOMAIN store => ~store[t.article.id].analyzed
       /\ t.pc = "put" => enrichCalls[t.article.id] = 1
  /\ \A i \in DOMAIN store : store[i].analyzed => enrichCalls[i] = 1
  /\ (ev.type = "taskEnd" /\ ev.info.written) => enrichCalls[ev.id] = 1

\* the final write of the first item of a batch has completed, after its
\* placeholder write and its enrichment, while the call is handling the
\* second item
C26_Witness ==
  /\ ev.type = "taskEnd"
  /\ ev.info.written
  /\ ev.info.enrichOk
  /\ IsPlaced(ev.info.candidateResult)
  /\ store[ev.id].analyzed
  /\ \E p \in RouteProcs : req[p].pc \in {"scan", "put"} /\ Len(req[p].queue) = 1

\* C27: fetchTopHeadlines does not wait for the enrichment: a call that has
\* handled its last item can return whatever background tasks are
\* outstanding, and the articles it returns are the placeholders of the
\* items of the batch, analyzed = false with zeroed metrics, whether their
\* enrichment is outstanding, has succeeded or has failed.
C27_SubmitDoesNotBlock ==
  /\ \A p \in RouteProcs : req[p].pc = "return" => ENABLED FetchReturn(p, 1)
  /\ ev.type = "returned" =>
       \A k \in 1..Len(ev.info.articles) :
         /\ ~ev.info.articles[k].analyzed
         /\ ev.info.articles[k].metrics = ZeroMetrics
         /\ \E j \in 1..Len(ev.info.batch) :
              ev.info.articles[k] = newArticle(ev.info.batch[j])

\* a call has returned the placeholder of an item whose enrichment is still
\* outstanding, and that of an item whose analyzed record is in the store
C27_Witness ==
  /\ ev.type = "returned"
  /\ \E k \in 1..Len(ev.info.articles) :
       \E t \in tasks : t.article.id = ev.info.articles[k].id /\ t.pc = "analyze"
  /\ \E k \in 1..Len(ev.info.articles) :
       /\ ev.info.articles[k].id \in DOMAIN store
       /\ store[ev.info.articles[k].id].analyzed

\* what the scan of each revision obtains when it reads the entry id:
\* blob-storage.ts:102-126 fetches blob.url, part_007:155 looks the id up,
\* part_007:652 looks up the file name
scanRead(st, id, outcome) ==
  CASE rev = "lib" -> IF outcome = "ok" THEN Some(st[id]) ELSE Null
    [] rev = "tracker" -> getArticleFromBlob(st, IdKey(id), outcome)
    [] rev = "paged" -> getArticleFromBlob(st, FileNameKey(id), outcome)

urlsInFlight ==
  {normalizeUrl(newArticle(Head(req[p].queue)).url) :
     p \in {q \in Procs : req[q].pc \in {"scan", "put"}}}
  \cup {normalizeUrl(t.toPut.url) : t \in {u \in tasks : u.pc = "put"}}

\* C31: with the storage tracker, every normalized url of
\* processedArticleUrls is the url of a record in the store or of a write
\* that is under way: no url stays in the set after the write it was added
\* for has failed or was skipped as a duplicate.
C31_SeenUrlsBacked ==
  rev = "tracker" =>
    \A u \in processedArticleUrls :
      \/ u \in urlsInFlight
      \/ \E i \in DOMAIN store : ~store[i].url.empty /\ normalizeUrl(store[i].url) = u

\* ------------------------------------------------ categorical validation
\* strings are sequences of characters here, so that toLowerCase, trim and
\* includes are computed
UpperToLower ==
  [A |-> "a", B |-> "b", C |-> "c", D |-> "d", E |-> "e", F |-> "f", G |->
   "g", H |-> "h", I |-> "i", J |-> "j", K |-> "k", L |-> "l", M |-> "m", N
   |-> "n", O |-> "o", P |-> "p", Q |-> "q", R |-> "r", S |-> "s", T |->
   "t", U |-> "u", V |-> "v", W |-> "w", X |-> "x", Y |-> "y", Z |-> "z"]

RECURSIVE toLowerCase(_)
toLowerCase(str) ==
  IF str = <<>> THEN <<>>
  ELSE <<IF Head(str) \in DOMAIN UpperToLower THEN UpperToLower[Head(str)]
         ELSE Head(str)>> \o toLowerCase(Tail(str))

\* the categorical fields of ArticleMetrics whose enumeration is the same
\* in every revision
ToneFields == {"sentimentTone", "politicalLeaning"}

\* ai.ts:105-110, part_007:1135-1151
allowedValues(field) ==
  IF field = "sentimentTone"
  THEN <<<<"P", "o", "s", "i", "t", "i", "v", "e">>,
       <<"N", "e", "g", "a", "t", "i", "v", "e">>,
       <<"N", "e", "u", "t", "r", "a", "l">>,
       <<"A", "l", "a", "r", "m", "i", "n", "g">>,
       <<"H", "o", "p", "e", "f", "u", "l">>,
       <<"M", "i", "x", "e", "d">>>>
  ELSE <<<<"L", "e", "f", "t">>,
       <<"C", "e", "n", "t", "e", "r", "-", "l", "e", "f", "t">>,
       <<"N", "e", "u", "t", "r", "a", "l">>,
       <<"C", "e", "n", "t", "e", "r", "-", "r", "i", "g", "h", "t">>,
       <<"R", "i", "g", "h", "t">>>>

Neutral == <<"N", "e", "u", "t", "r", "a", "l">>

\* ai.ts:105-110, part_007:996-998: the default of both fields
defaultValue(field) == Neutral

\* part_007:1274-1301: the keys of commonMappings whose value is a member
\* of one of the two enumerations; all three map to "Neutral"
commonMappings ==
  {<<"b", "a", "l", "a", "n", "c", "e", "d">>,
   <<"u", "n", "b", "i", "a", "s", "e", "d">>,
   <<"b", "o", "r", "i", "n", "g">>}

\* the values of the field in the parsed response; the empty string also
\* stands for a missing field
ToneValues ==
  {<<"N", "e", "u", "t", "r", "a", "l">>,
   <<"N", "E", "U", "T", "R", "A", "L">>,
   <<"h", "o", "p", "e", "f", "u", "l">>,
   <<" ", "L", "e", "f", "t", " ">>,
   <<"H", "o", "p", "e">>,
   <<"g", "l", "o", "o", "m", "y">>,
   <<"b", "a", "l", "a", "n", "c", "e", "d">>,
   <<>>}

\* allowedValues.find(v => v.toLowerCase() === str.toLowerCase())
RECURSIVE findEqual(_, _)
findEqual(list, str) ==
  IF list = <<>> THEN Null
  ELSE IF toLowerCase(Head(list)) = toLowerCase(str) THEN Some(Head(list))
  ELSE findEqual(Tail(list), str)

\* part_007:1264-1268: the first member that contains the value or is
\* contained in it, both lower-cased
RECURSIVE findPartial(_, _)
findPartial(list, str) ==
  IF list = <<>> THEN Null
  ELSE IF \/ Includes(toLowerCase(Head(list)), toLowerCase(str))
          \/ Includes(toLowerCase(str), toLowerCase(Head(list)))
       THEN Some(Head(list))
  ELSE findPartial(Tail(list), str)

\* String(value || '').trim()
trimmed(value) == TrimRight(TrimLeft(value))

\* ai.ts:173-179
validateString(value, allowed, default) ==
  IF trimmed(value) = <<>> THEN Return(default)
  ELSE IF findEqual(allowed, trimmed(value)) # Null
       THEN Return(findEqual(allowed, trimmed(value))[1])
  ELSE Return(default)

\* part_007:1249-1313
validateStringStrict(value, allowed) ==
  LET str == trimmed(value)
  IN  IF str = <<>> THEN Throw("Empty string value")
      ELSE IF findEqual(allowed, str) # Null THEN Return(findEqual(allowed, str)[1])
      ELSE IF findPartial(allowed, str) # Null
           THEN Return(findPartial(allowed, str)[1])
      ELSE IF /\ toLowerCase(str) \in commonMappings
              /\ \E k \in 1..Len(allowed) : allowed[k] = Neutral
           THEN Return(Neutral)
      ELSE Return(allowed[1])

\* analyzeArticle on a response that parses as JSON, for one categorical
\* field (ai.ts:103-110, part_007:996-998 `value || default`,
\* part_007:1135-1151)
analyzeTone(aiRev, field, value) ==
  CASE aiRev = "lib" -> validateString(value, allowedValues(field), defaultValue(field))
    [] aiRev = "first" -> IF value = <<>> THEN Return(defaultValue(field))
                          ELSE Return(value)
    [] aiRev = "strict" -> validateStringStrict(value, allowedValues(field))

\* a call of analyzeArticle whose response carries value in a categorical
\* field
AnalyzeTone(aiRev, field, value) ==
  /\ ev' = Event("validated", "",
                 [aiRev |-> aiRev, field |-> field, value |-> value,
                  call |-> analyzeTone(aiRev, field, value)])
  /\ UNCHANGED <<rev, now, cleanup, store, articlesInProgress, articlesBeingProcessed,
                 processedArticleUrls, req, tasks, nFetches, enrichCalls, seenAnalyzed>>

\* the validation of the scores and of the categorical fields
NextValidate ==
  \/ NextAnalyze
  \/ \E aiRev \in AiRevs, field \in ToneFields, value \in ToneValues :
       AnalyzeTone(aiRev, field, value)

SpecValidate == Init /\ [][NextValidate]_vars

\* a value that is no member up to case, neither contains nor is contained
\* in one, and is no synonym
unmatched(field, value) ==
  /\ findEqual(allowedValues(field), trimmed(value)) = Null
  /\ findPartial(allowedValues(field), trimmed(value)) = Null
  /\ toLowerCase(trimmed(value)) \notin commonMappings

\* C32: categorical validation: when a call of analyzeArticle returns, each
\* categorical field of its result is a member of the field's enumeration;
\* a value equal to a member up to case gives that member, and a value
\* that matches no member and no synonym gives the field's default
\* "Neutral".
C32_CategoricalValidation ==
  (ev.type = "validated" /\ ev.info.call.kind = "return") =>
    LET allowed == allowedValues(ev.info.field)
    IN  /\ \E k \in 1..Len(allowed) : allowed[k] = ev.info.call.value
        /\ \A k \in 1..Len(allowed) :
             toLowerCase(allowed[k]) = toLowerCase(trimmed(ev.info.value))
               => ev.info.call.value = allowed[k]
        /\ unmatched(ev.info.field, ev.info.value)
             => ev.info.call.value = defaultValue(ev.info.field)

\* -------------------------------------------------------------- delete all
\* DELETE /api/articles/delete-all (delete-all/route.ts:4-44), or with the
\* tracker revision the handler of part_005:4-17, which calls
\* deleteAllArticlesFromBlob (part_007:382-412): the list of the blobs
DeleteAllStart(viaLib, listOk) ==
  /\ cleanup.pc = "idle"
  /\ viaLib => rev = "tracker"
  /\ IF listOk
     THEN /\ cleanup' = [pc |-> "deleteAll", viaLib |-> viaLib,
                         blobs |-> BlobList(store), deletedCount |-> 0,
                         fetches |-> nFetches, emptied |-> FALSE, quiet |-> FALSE]
          /\ ev' = NoEvent
     ELSE /\ ev' = Event("deletedAll", "", [deletedCount |-> 0, status |-> IF viaLib THEN 200 ELSE 500])
          /\ UNCHANGED cleanup
  /\ UNCHANGED <<rev, now, store, articlesInProgress, articlesBeingProcessed,
                 processedArticleUrls, req, tasks, nFetches, enrichCalls, seenAnalyzed>>

\* one del: delete-all/route.ts:15-23 counts the dels that succeeded;
\* part_007:371-379 catches the failure of del itself and calls
\* markArticleAsFinished only after a del that succeeded, and
\* part_007:393-394 counts every call
DeleteAllStep(ok) ==
  /\ cleanup.pc = "deleteAll"
  /\ cleanup.blobs # <<>>
  /\ LET id == Head(cleanup.blobs)
     IN  /\ store' = IF ok THEN Del(store, id) ELSE store
         /\ articlesBeingProcessed' =
              IF cleanup.viaLib /\ ok THEN articlesBeingProcessed \ {id}
              ELSE articlesBeingProcessed
         /\ cleanup' = [cleanup EXCEPT !.blobs = Tail(@),
                                       !.deletedCount = IF ok \/ cleanup.viaLib
                                                        THEN @ + 1 ELSE @]
  /\ ev' = NoEvent
  /\ UNCHANGED <<rev, now, articlesInProgress, processedArticleUrls, req, tasks,
                 nFetches, enrichCalls, seenAnalyzed>>

\* part_007:402-408 clears the tracking sets and returns the count;
\* delete-all/route.ts:25-35 answers.  The finished call is kept, with the
\* number of fetches started so far, whether the store was empty and
\* whether no call of fetchTopHeadlines was running.
DeleteAllReturn ==
  /\ cleanup.pc = "deleteAll"
  /\ cleanup.blobs = <<>>
  /\ articlesBeingProcessed' = IF cleanup.viaLib THEN {} ELSE articlesBeingProcessed
  /\ processedArticleUrls' = IF cleanup.viaLib THEN {} ELSE processedArticleUrls
  /\ cleanup' = [cleanup EXCEPT !.pc = "deletedAll", !.fetches = nFetches,
                                !.emptied = (store = <<>>),
                                !.quiet = (\A p \in Procs : req[p].pc = "idle")]
  /\ ev' = Event("deletedAll", "", [deletedCount |-> cleanup.deletedCount, status |-> 200])
  /\ UNCHANGED <<rev, now, store, articlesInProgress, req, tasks, nFetches,
                 enrichCalls, seenAnalyzed>>

\* one call of fetchTopHeadlines with its background task, and one request
\* to delete all articles
NextDeleteAll ==
  \/ \E p \in RouteProcs, batch \in Batches, ok \in BOOLEAN :
       nFetches = 0 /\ CallFetch(p, batch, ok)
  \/ \E p \in RouteProcs, outcome \in FetchOutcomes : ItemLookup(p, outcome)
  \/ \E p \in RouteProcs, out \in OutcomeMaps, listOk \in BOOLEAN : ItemScan(p, out, listOk)
  \/ \E p \in RouteProcs, ok \in BOOLEAN : ItemPut(p, ok)
  \/ \E p \in RouteProcs : FetchReturn(p, 1)
  \/ \E t \in tasks, an \in AnalysisOutcomes : BgAnalyze(t, an)
  \/ \E t \in tasks, ok \in BOOLEAN : BgPut(t, ok)
  \/ \E viaLib, listOk \in BOOLEAN : DeleteAllStart(viaLib, listOk)
  \/ \E ok \in BOOLEAN : DeleteAllStep(ok)
  \/ DeleteAllReturn

SpecDeleteAll == Init /\ [][NextDeleteAll]_vars

\* C33: delete-all is final for the work in flight: once a delete-all
\* request has returned with the store empty and no call of
\* fetchTopHeadlines running, the store stays empty as long as no fetch
\* request has been started after it; a background enrichment started
\* before does not write its record again.
C33_DeleteAllFinal ==
  (/\ cleanup.pc = "deletedAll"
   /\ cleanup.emptied
   /\ cleanup.quiet
   /\ nFetches = cleanup.fetches)
    => store = <<>>

\* ----------------------------------------------------------- re-ingestion
\* calls of fetchTopHeadlines, one after the other, that receive the same
\* item, while time passes and the cleanup job runs; every request to the
\* blob service succeeds
NextReingest ==
  \/ \E p \in RouteProcs : CallFetch(p, <<RawA>>, TRUE)
  \/ \E p \in RouteProcs : ItemLookup(p, "ok")
  \/ \E p \in RouteProcs : ItemScan(p, [i \in Ids |-> "ok"], TRUE)
  \/ \E p \in RouteProcs : ItemPut(p, TRUE)
  \/ \E p \in RouteProcs : FetchReturn(p, 1)
  \/ \E t \in tasks, an \in AnalysisOutcomes : BgAnalyze(t, an)
  \/ \E t \in tasks : BgPut(t, TRUE)
  \/ \E t \in Times : Tick(t)
  \/ CleanupStart(TRUE)
  \/ CleanupFetch("ok")
  \/ CleanupDelete(TRUE)
  \/ CleanupReturn

SpecReingest == Init /\ [][NextReingest]_vars

\* C34: re-ingestion after eviction: storeArticle does not reject a pending
\* candidate as already processed when the store holds no record with its
\* url, as is the case after the cleanup job has removed the record.
C34_ReingestAfterEviction ==
  (ev.type = "stored" /\ ev.info.result.kind = "duplicate")
    => \E i \in DOMAIN store :
         normalizeUrl(store[i].url) = normalizeUrl(RawA.link)

\* C35: enrichment results are never lost: no storeArticle of a pending
\* candidate replaces a record that holds metrics produced by the
\* enrichment by a record with the zeroed metrics of a placeholder.
C35_EnrichmentNotLost ==
  (/\ ev.type = "stored"
   /\ ev.info.replaced # Null
   /\ ev.info.replaced[1].metrics # ZeroMetrics)
    => store[ev.id].metrics # ZeroMetrics

\* ----------------------------------------------------------- searchArticles
\* news-api.ts:104  `${apiArticle.source_id}-${apiArticle.article_id}`
articleKey(raw) == raw.source_id \o "-" \o raw.article_id

\* news-api.ts:112-155: the article built from a search result
searchArticle(raw) ==
  [id |-> raw.article_id, title |-> raw.title, url |-> raw.link,
   source |-> OrElse(raw.source_id, "Unknown"), analyzed |-> FALSE]

\* news-api.ts:101-162: the loop over the results from item i on, with the
\* in-progress set and the articles collected so far
RECURSIVE searchLoop(_, _, _, _)
searchLoop(results, i, inProgress, processedArticles) ==
  IF i > Len(results)
  THEN [articles |-> processedArticles, inProgress |-> inProgress]
  ELSE IF articleKey(results[i]) \in inProgress
       THEN searchLoop(results, i + 1, inProgress, processedArticles)
       ELSE searchLoop(results, i + 1, inProgress \cup {articleKey(results[i])},
                       Append(processedArticles, searchArticle(results[i])))

\* news-api.ts:46-170: one call of searchArticles; ok is whether the request
\* to the news service succeeded, results is what it answered
SearchArticles(results, ok) ==
  LET loop == searchLoop(results, 1, articlesInProgress, <<>>)
  IN  /\ articlesInProgress' = IF ok THEN loop.inProgress ELSE articlesInProgress
      /\ ev' = Event("searched", "",
                     [results |-> results, ok |-> ok,
                      articles |-> IF ok THEN loop.articles ELSE <<>>])
      /\ UNCHANGED <<rev, now, cleanup, store, articlesBeingProcessed,
                     processedArticleUrls, req, tasks, nFetches, enrichCalls,
                     seenAnalyzed>>

SearchBatches == Batches \cup {<<RawA, RawB>>, <<RawB, RawC>>}

\* calls of searchArticles, beside one call of fetchTopHeadlines, which
\* shares the in-progress set
NextSearch ==
  \/ \E results \in SearchBatches, ok \in BOOLEAN : SearchArticles(results, ok)
  \/ \E p \in RouteProcs : nFetches = 0 /\ CallFetch(p, <<RawA>>, TRUE)
  \/ \E p \in RouteProcs : ItemLookup(p, "ok")
  \/ \E p \in RouteProcs : ItemScan(p, [i \in Ids |-> "ok"], TRUE)
  \/ \E p \in RouteProcs : ItemPut(p, TRUE)
  \/ \E p \in RouteProcs : FetchReturn(p, 1)
  \/ \E t \in tasks, an \in AnalysisOutcomes : BgAnalyze(t, an)
  \/ \E t \in tasks : BgPut(t, TRUE)

SpecSearch == Init /\ [][NextSearch]_vars

\* C36: searchArticles is repeatable: of two successive calls that receive
\* the same results from the news service, the later returns the articles
\* that the earlier returned.
C36_SearchRepeatable ==
  [][(/\ ev.type = "searched" /\ ev.info.ok
      /\ ev'.type = "searched" /\ ev'.info.ok
      /\ ev'.info.results = ev.info.results)
       => ev'.info.articles = ev.info.articles]_vars

\* ----------------------------------------------------------- manual entries
\* the bodies of two POST requests to the add endpoint that give no url,
\* with different titles and sources
RawM == [RawA EXCEPT !.link = NoUrl]
RawN == [RawC EXCEPT !.link = NoUrl, !.content = "txt"]

\* the add endpoint, and the list endpoint answering from the store; every
\* request to the blob service succeeds
NextManual ==
  \/ \E raw \in {RawM, RawN, RawB}, an \in AnalysisOutcomes : AddArticle(raw, an, TRUE)
  \/ \E p \in RouteProcs, page \in Pages, pageSize \in PageSizes :
       /\ \E i \in DOMAIN store : store[i].analyzed = TRUE
       /\ GetList(p, FALSE, page, pageSize, [i \in Ids |-> "ok"], TRUE)

SpecManual == Init /\ [][NextManual]_vars

\* the stored analyzed articles that have no url
manualEntries == {i \in DOMAIN store : store[i].analyzed = TRUE /\ store[i].url.empty}

\* C37: articles without url are not collapsed: when the stored analyzed
\* articles without url have pairwise different title+source pairs, the
\* de-duplicated list of the list endpoint holds every one of them.
C37_NoUrlNotCollapsed ==
  (/\ ev.type = "response"
   /\ \A i, j \in manualEntries :
        i # j => titleSourceKey(store[i]) # titleSourceKey(store[j]))
    => ev.info.body.totalArticles >= Cardinality(manualEntries)

====
